---- MODULE Spec2Model ----
(***************************************************************************)
(* A model of the meeting-bot pipeline of rkj-ai:                          *)
(*   - MeetBot.join_meeting and its single attempts     (SpecJoin)         *)
(*   - Recorder.start / Recorder.stop                   (SpecRecorder)     *)
(*   - the worker's main() with its cleanup path        (SpecWorker)       *)
(*   - the orchestrator loop and ContainerManager       (SpecOrch)         *)
(*   - CaptionScraper                                   (SpecCaptions)     *)
(*   - speaker attribution from the caption log         (SpecAttribution)  *)
(*   - the audio chunker transcribe_large_file          (SpecChunker)      *)
(*   - process_segments of the transcription result     (SpecSegments)     *)
(*   - MeetingScheduler.schedule_bot_join               (SpecScheduler)    *)
(* Every component has its own variables; a specification moves only the   *)
(* variables of the components it is about and pins the others.            *)
(***************************************************************************)
EXTENDS Integers, Sequences, FiniteSets, TLC

VARIABLES
    \* ---- MeetBot.join_meeting (services/meet-bot/src/bot.py) ----
    max_join_retries,   \* config.MAX_JOIN_RETRIES of this run
    jpc,                \* position inside join_meeting
    attempt,            \* the loop variable of join_meeting
    attempts,           \* number of _attempt_join_meeting calls made
    poll_i,             \* the loop variable i of _wait_for_meeting_join
    tick_markers,       \* the markers the page showed on the latest tick of
                        \* the poll of this attempt
    outcomes,           \* how each finished attempt ended
    delays,             \* the backoff delays slept, in order
    reloads,            \* successful page.reload() calls between attempts
    navs,               \* successful fallback page.goto() calls between attempts
    joinResult,         \* what join_meeting returned: "none" until it returns
    is_in_meeting,      \* MeetBot.is_in_meeting
    \* ---- Recorder (services/meet-bot/src/recorder.py) ----
    rpc,                \* "idle", or "starting" while start() sleeps its grace period
    is_recording,       \* Recorder.is_recording
    process,            \* Recorder.process: "none", "alive" or "exited"
    recording_path,     \* Recorder.recording_path: "none" or "set"
    expected_file,      \* the file at recording_path: "missing", "empty", "nonempty"
    other_file,         \* the most recently modified other *.mp4 of the
                        \* recording directory: "none", "empty", "nonempty"
    other_owner,        \* whose recording other_file is: "none", "self" (an
                        \* earlier recording of this recorder's meeting) or
                        \* "other" (the recorder of another meeting)
    signals,            \* what stop() sent to the capture process, in order
    stop_results,       \* results of the stop() calls since the last start()
    stop_calls,         \* per stop() call: is_recording and process before it,
                        \* the file when it was verified, the signals it sent
    starts,             \* number of start() calls that launched a process
    \* ---- the worker's main() (services/meet-bot/src/main.py) ----
    wpc,                \* position inside main()
    early,              \* config.EARLY_RECORDING_MODE
    has_key,            \* config.OPENAI_API_KEY is set
    joined,             \* join_meeting returned True
    w_recording_path,   \* main's local recording_path: "none", "expected", "other"
    is_uploaded,        \* main's local is_uploaded
    transcription_path, \* main's transcription_path is set
    exit_code,          \* main's local exit_code
    shutdown_requested, \* the global _shutdown_requested
    monitor_ticks,      \* check_count of monitor_with_shutdown
    meeting_ended,      \* MeetBot.meeting_ended
    failure,            \* the first terminal failure of main(): "none", "join",
                        \* "recording", "upload" or "other"
    uploaded,           \* files whose upload succeeded
    upload_failures,    \* files whose upload failure was logged
    file_at_cleanup,    \* the expected file when the finally block ran
    scraped,            \* bot.caption_scraper holds at least one segment
    \* ---- the meeting record and the transcription queue ----
    mstatus,            \* meetings.status of the worker's meeting
    last_write,         \* the last write of meetings.status: who, from, to
    tq,                 \* jobs waiting in queue:transcription
    \* ---- the orchestrator (services/bot-orchestrator/src) ----
    jq,                 \* the job data waiting in queue:join_meeting, in order
    enqueued,           \* number of join jobs enqueued so far
    job_log,            \* per dequeued job: its outcome, its status writes and
                        \* the error_message written with them ("none": none)
    containers,         \* the Docker daemon's containers: name, meeting, id, state
    active_containers,  \* ContainerManager.active_containers: <<meeting, id>> pairs
    spawn_count,        \* number of containers created so far
    last_spawn,         \* the last spawn_bot call: meeting, result, name was taken
    \* ---- CaptionScraper (services/meet-bot/src/caption_scraper.py) ----
    is_scraping,        \* CaptionScraper.is_scraping
    start_time,         \* CaptionScraper.start_time: "none" or "set"
    now_ms,             \* milliseconds elapsed since start_time
    segments,           \* CaptionScraper.segments, the closed list
    active_segments,    \* CaptionScraper._active_segments: one segment per
                        \* speaker, in the order the speakers were first seen
    events,             \* the caption events handled: speaker, text, time,
                        \* and what handle_caption did with each
    \* ---- transcription (services/meet-bot/src/transcriber.py and
    \*      services/transcription-worker/src/main.py) ----
    captions,           \* the caption segments the attribution reads
    lookups,            \* the get_speaker_at_time calls made: which of the
                        \* two functions, the timestamp, the list it read,
                        \* the speaker returned
    total_duration_ms,  \* len(audio) of the file to transcribe
    file_size_mb,       \* os.path.getsize of the file, in MiB
    cpc,                \* position of the transcription: "idle", "split"
                        \* (the while loop), "chunks" (the for loop), "done"
    chunks,             \* the local chunks of transcribe_large_file
    start,              \* the loop variable start of the while loop
    all_segments,       \* the local all_segments, or the segments of the
                        \* single call; each with the window it came from and
                        \* the times the engine gave it
    full_text_parts,    \* the local full_text_parts
    full_text,          \* the "text" of the result: <<>> until it is built
    engine_calls,       \* the transcription calls made: what was sent (the
                        \* file, or a window) and what the engine returned
    result_segments,    \* result["segments"] handed to process_segments
    processed_by,       \* which process_segments ran: "none", "worker", "api"
    db_segments,        \* the list process_segments returned
    \* ---- MeetingScheduler (services/scheduler/src/main.py) ----
    meetings_table,     \* per calendar event, the status of each meeting
                        \* record with that calendar_event_id, oldest first
    join_queue,         \* queue:join_meeting: the meeting ids of the jobs
    sched_log           \* per schedule_bot_join call: the event, the records
                        \* it had, the error met, what the call did

joinVars == <<max_join_retries, jpc, attempt, attempts, poll_i, tick_markers,
              outcomes, delays, reloads, navs, joinResult, is_in_meeting>>

recVars == <<rpc, is_recording, process, recording_path, expected_file,
             other_file, other_owner, signals, stop_results, stop_calls,
             starts>>

mainVars == <<wpc, early, has_key, failure, meeting_ended, joined, w_recording_path, is_uploaded,
              transcription_path, exit_code, shutdown_requested, monitor_ticks,
              uploaded, upload_failures, file_at_cleanup>>

scrapeVars == <<scraped>>

dbVars == <<mstatus, last_write, tq>>

orchVars == <<jq, enqueued, job_log, containers, active_containers,
              spawn_count, last_spawn>>

capVars == <<is_scraping, start_time, now_ms, segments, active_segments,
             events>>

txVars == <<captions, lookups, total_duration_ms, file_size_mb, cpc, chunks,
            start, all_segments, full_text_parts, full_text, engine_calls,
            result_segments, processed_by, db_segments>>

schedVars == <<meetings_table, join_queue, sched_log>>

vars == <<joinVars, recVars, mainVars, scrapeVars, dbVars, orchVars, capVars,
          txVars, schedVars>>

(***************************************************************************)
(* Bounds of the model and constants of the program.                       *)
(***************************************************************************)
\* largest MAX_JOIN_RETRIES configured in a run of the model (default 3)
MaxRetries == 5
\* ticks of the admission poll in the model; stands for config.JOIN_TIMEOUT
MaxJoinTicks == 2
\* start() calls of one Recorder in the model
MaxStarts == 2
\* stop() calls between two start() calls in the model
MaxStops == 3
\* ticks of the monitoring loop in the model
MaxMonitorTicks == 2
MaxJobs == 2
MaxEvents == 3
MaxTextLen == 2
MaxElapsedMs == 3000
MaxSpawns == 3
\* caption segments in the list the attribution reads, in the model
MaxCaptions == 2
\* get_speaker_at_time calls in the model
MaxLookups == 2
\* segments of a transcription result in the model
MaxSegments == 3
\* schedule_bot_join calls in the model
MaxTicks == 4
\* config.MAX_JOIN_RETRIES default
MAX_JOIN_RETRIES == 3
\* config.INITIAL_RETRY_DELAY default (seconds)
INITIAL_RETRY_DELAY == 5
\* config.MAX_RETRY_DELAY default (seconds)
MAX_RETRY_DELAY == 30

Min(a, b) == IF a < b THEN a ELSE b

(***************************************************************************)
(* MeetBot.join_meeting                                                    *)
(***************************************************************************)

\* The markers a page can show on one tick of the admission poll.
PollMarkers == {"failure", "waiting", "meeting"}

\* Markers of the pre-join check of _attempt_join_meeting: the access-denied
\* selector list (which also holds the meeting-ended texts) and the
\* sign-in-required selector list.
PreJoinMarkers == {"none", "access_denied", "meeting_ended", "signin_required"}

\* The result of the pre-join check: False (permanent failure) when a marker
\* of either selector list is found, otherwise the attempt goes on.
PreJoinCheckResult(marker) ==
    IF marker \in {"access_denied", "meeting_ended"} THEN "false"
    ELSE IF marker = "signin_required" THEN "false"
    ELSE "continue"

\* A buggy variant: the sign-in and access-denied results fall through to the
\* retry path instead of returning.
AfterAttemptRetryAll(result) ==
    IF result = "true" THEN "returned_true" ELSE "except"

\* join_meeting, after `result = await self._attempt_join_meeting(attempt)`:
\* a truthy result returns True, `result is False` returns False.
AfterAttempt(result) ==
    IF result = "true" THEN "returned_true"
    ELSE IF result = "false" THEN "returned_false"
    ELSE "except"

\* A buggy variant of the backoff: the exponent is the attempt number and the
\* cap is missing.
BackoffDelayUncapped(k) == INITIAL_RETRY_DELAY * (2 ^ k)

\* The delay slept after failed attempt k, before attempt k+1.
BackoffDelay(k) ==
    Min(INITIAL_RETRY_DELAY * (2 ^ (k - 1)), MAX_RETRY_DELAY)

\* A buggy variant of the tick: the in-meeting markers are looked for
\* before the waiting-room markers.
TickOutcomeMeetingFirst(markers) ==
    IF "failure" \in markers THEN "raise"
    ELSE IF "meeting" \in markers THEN "return"
    ELSE "continue"

\* One tick of _wait_for_meeting_join: failure markers first (raise), then
\* waiting-room markers (keep polling), then in-meeting markers (return).
TickOutcome(markers) ==
    IF "failure" \in markers THEN "raise"
    ELSE IF "waiting" \in markers THEN "continue"
    ELSE IF "meeting" \in markers THEN "return"
    ELSE "continue"

JoinInit ==
    /\ max_join_retries \in 1..MaxRetries
    /\ jpc = "attempt"
    /\ attempt = 1
    /\ attempts = 0
    /\ poll_i = 0
    /\ tick_markers = {}
    /\ outcomes = <<>>
    /\ delays = <<>>
    /\ reloads = 0
    /\ navs = 0
    /\ joinResult = "none"
    /\ is_in_meeting = FALSE

\* join_meeting is not running: the state of a freshly constructed MeetBot.
JoinIdle ==
    /\ max_join_retries = MAX_JOIN_RETRIES
    /\ jpc = "idle"
    /\ attempt = 1
    /\ attempts = 0
    /\ poll_i = 0
    /\ tick_markers = {}
    /\ outcomes = <<>>
    /\ delays = <<>>
    /\ reloads = 0
    /\ navs = 0
    /\ joinResult = "none"
    /\ is_in_meeting = FALSE

\* The attempt ended with `result` ("true", "false") or with an exception
\* (result = "raise"); `how` is recorded as the attempt's outcome.
FinishAttempt(result, how) ==
    /\ outcomes' = Append(outcomes, how)
    /\ LET next == AfterAttempt(result) IN
         /\ jpc' = IF next = "returned_true" \/ next = "returned_false"
                   THEN "returned" ELSE "except"
         /\ joinResult' = IF next = "returned_true" THEN "true"
                          ELSE IF next = "returned_false" THEN "false"
                          ELSE joinResult

\* Loop head of join_meeting and the first part of _attempt_join_meeting:
\* navigation on the first attempt, screenshot, popups, generic-error
\* recovery.  A navigation or screenshot error raises out of the attempt.
AttemptBegin ==
    /\ jpc = "attempt"
    /\ attempts' = attempts + 1
    /\ tick_markers' = {}
    /\ \E raised \in BOOLEAN :
         IF raised
         THEN /\ FinishAttempt("raise", "error")
         ELSE /\ jpc' = "prejoin"
              /\ UNCHANGED <<outcomes, joinResult>>
    /\ UNCHANGED <<max_join_retries, attempt, poll_i, delays, reloads, navs,
                   is_in_meeting>>

\* The pre-join check and what follows up to the admission poll: name entry
\* and microphone are best effort, the screenshot before the click and the
\* keyboard fallback of _click_join_button can raise.
PreJoinCheck ==
    /\ jpc = "prejoin"
    /\ \E marker \in PreJoinMarkers, raised \in BOOLEAN :
         IF PreJoinCheckResult(marker) = "false"
         THEN /\ FinishAttempt("false", "permanent")
              /\ UNCHANGED poll_i
         ELSE IF raised
         THEN /\ FinishAttempt("raise", "error")
              /\ UNCHANGED poll_i
         ELSE /\ jpc' = "poll"
              /\ poll_i' = 0
              /\ UNCHANGED <<outcomes, joinResult>>
    /\ UNCHANGED <<max_join_retries, attempt, attempts, tick_markers, delays,
                   reloads, navs, is_in_meeting>>

\* One tick of _wait_for_meeting_join.  When the attempt returns True,
\* join_meeting sets is_in_meeting and takes a screenshot inside its try
\* block: a screenshot error is handled like a failed attempt.
PollTick ==
    /\ jpc = "poll"
    /\ poll_i < MaxJoinTicks
    /\ \E markers \in SUBSET PollMarkers, shotOk \in BOOLEAN :
         LET t == TickOutcome(markers) IN
         /\ tick_markers' = markers
         /\ IF t = "raise"
            THEN /\ FinishAttempt("raise", "join_failed")
                 /\ UNCHANGED <<poll_i, is_in_meeting>>
            ELSE IF t = "return"
            THEN /\ is_in_meeting' = TRUE
                 /\ IF shotOk
                    THEN FinishAttempt("true", "success")
                    ELSE FinishAttempt("raise", "error")
                 /\ UNCHANGED poll_i
            ELSE /\ poll_i' = poll_i + 1
                 /\ UNCHANGED <<jpc, outcomes, joinResult, is_in_meeting>>
    /\ UNCHANGED <<max_join_retries, attempt, attempts, delays, reloads, navs>>

\* The poll ran JOIN_TIMEOUT ticks: TimeoutError.
PollTimeout ==
    /\ jpc = "poll"
    /\ poll_i = MaxJoinTicks
    /\ FinishAttempt("raise", "timeout")
    /\ UNCHANGED <<max_join_retries, attempt, attempts, poll_i, tick_markers,
                   delays, reloads, navs, is_in_meeting>>

\* The except blocks of join_meeting and the backoff: diagnostics are
\* captured (never raising), then either the delay is slept or, after the
\* last attempt, the loop ends and join_meeting returns False.
Backoff ==
    /\ jpc = "except"
    /\ IF attempt < max_join_retries
       THEN /\ delays' = Append(delays, BackoffDelay(attempt))
            /\ jpc' = "reload"
            /\ UNCHANGED joinResult
       ELSE /\ jpc' = "returned"
            /\ joinResult' = "false"
            /\ UNCHANGED delays
    /\ UNCHANGED <<max_join_retries, attempt, attempts, poll_i, tick_markers,
                   outcomes, reloads, navs, is_in_meeting>>

\* Between attempts: page.reload(), and page.goto() when the reload raises.
\* An error of the goto is not caught inside join_meeting.
Reload ==
    /\ jpc = "reload"
    /\ \E reloadOk \in BOOLEAN, gotoOk \in BOOLEAN :
         IF reloadOk
         THEN /\ reloads' = reloads + 1
              /\ attempt' = attempt + 1
              /\ jpc' = "attempt"
              /\ UNCHANGED navs
         ELSE IF gotoOk
         THEN /\ navs' = navs + 1
              /\ attempt' = attempt + 1
              /\ jpc' = "attempt"
              /\ UNCHANGED reloads
         ELSE /\ jpc' = "raised"
              /\ UNCHANGED <<attempt, reloads, navs>>
    /\ UNCHANGED <<max_join_retries, attempts, poll_i, tick_markers, outcomes,
                   delays, joinResult, is_in_meeting>>


(***************************************************************************)
(* Recorder                                                                *)
(***************************************************************************)

\* Recorder.__init__
RecInit ==
    /\ rpc = "idle"
    /\ is_recording = FALSE
    /\ process = "none"
    /\ recording_path = "none"
    /\ expected_file = "missing"
    /\ other_file \in {"none", "nonempty"}
    /\ other_owner = IF other_file = "none" THEN "none" ELSE "other"
    /\ signals = <<>>
    /\ stop_results = <<>>
    /\ stop_calls = <<>>
    /\ starts = 0

\* The files a capture process can leave: it creates its output, then writes.
FileStates == {"missing", "empty", "nonempty"}
FileRank(f) == IF f = "missing" THEN 0 ELSE IF f = "empty" THEN 1 ELSE 2

\* The signals stop() sends to a live process: 'q' on stdin, SIGTERM only
\* when writing 'q' raised, and a kill when the process did not exit within
\* the 10 s wait.
StopSignals(qOk, exitsInTime) ==
    (IF qOk THEN <<"q">> ELSE <<"q_failed", "SIGTERM">>)
    \o (IF exitsInTime THEN <<>> ELSE <<"SIGKILL">>)

\* stop() with no recording in progress or no process: the file at
\* recording_path when it exists and is not empty, else None.
StopWhenIdle(pathSet, expected, other) ==
    IF pathSet /\ expected = "nonempty" THEN "expected" ELSE "null"

\* A buggy variant of the verification: the newest file of the directory
\* is preferred to the expected one.
StopVerifyNewestFirst(pathSet, expected, other) ==
    IF ~pathSet THEN "null"
    ELSE IF other = "nonempty" THEN "other"
    ELSE IF expected = "nonempty" THEN "expected"
    ELSE "null"

\* The verification at the end of stop(): the expected file when it is not
\* empty; None when it is empty; when it is missing, the most recently
\* modified *.mp4 of the directory if that one is not empty.
StopVerify(pathSet, expected, other) ==
    IF ~pathSet THEN "null"
    ELSE IF expected = "nonempty" THEN "expected"
    ELSE IF expected = "empty" THEN "null"
    ELSE IF other = "nonempty" THEN "other"
    ELSE "null"

\* The except block of stop(): the expected file if it is there and not
\* empty, else the exception is raised again.
StopRecover(pathSet, expected) ==
    IF pathSet /\ expected = "nonempty" THEN "expected" ELSE "raise"

\* Recorder.stop() as a function of the recorder's state, the files after
\* the process was stopped, and what went wrong: err is "none", "signal" (an
\* error while stopping the process, before is_recording is cleared) or
\* "scan" (an error while looking for the file).  The result is what the
\* call returns ("raise" when it raises) and the new is_recording.
RecorderStop(isRec, proc, pathSet, expected, other, err) ==
    IF ~isRec \/ proc = "none"
    THEN [ret |-> StopWhenIdle(pathSet, expected, other), rec |-> isRec]
    ELSE IF err = "signal"
    THEN LET r == StopRecover(pathSet, expected) IN
         [ret |-> r, rec |-> IF r = "raise" THEN isRec ELSE FALSE]
    ELSE IF err = "scan" /\ pathSet /\ expected = "missing"
    THEN [ret |-> StopRecover(pathSet, expected), rec |-> FALSE]
    ELSE [ret |-> StopVerify(pathSet, expected, other), rec |-> FALSE]

\* start(): a new timestamped output path, the capture process is launched
\* and is_recording set; then start() sleeps one second.  A recording made
\* earlier by this recorder stays in the directory as another *.mp4.
RecStart ==
    /\ rpc = "idle"
    /\ ~is_recording
    /\ starts < MaxStarts
    /\ recording_path' = "set"
    /\ expected_file' = "missing"
    /\ \E newer \in BOOLEAN :
         IF expected_file # "missing" /\ (newer \/ other_file = "none")
         THEN /\ other_file' = expected_file
              /\ other_owner' = "self"
         ELSE UNCHANGED <<other_file, other_owner>>
    /\ \E launched \in BOOLEAN :
         IF launched
         THEN /\ process' = "alive"
              /\ is_recording' = TRUE
              /\ rpc' = "starting"
              /\ starts' = starts + 1
              /\ stop_results' = <<>>
              /\ stop_calls' = <<>>
              /\ signals' = <<>>
         ELSE UNCHANGED <<process, is_recording, rpc, starts, stop_results,
                          stop_calls, signals>>

\* start() after the grace period: a process that has exited makes start()
\* clear is_recording and raise.
RecStartCheck ==
    /\ rpc = "starting"
    /\ rpc' = "idle"
    /\ is_recording' = (process = "alive")
    /\ UNCHANGED <<process, recording_path, expected_file, other_file,
                   other_owner, signals, stop_results, stop_calls, starts>>

\* The capture process creates its output file and writes to it.
FfmpegWrite ==
    /\ process = "alive"
    /\ expected_file # "nonempty"
    /\ expected_file' = IF expected_file = "missing" THEN "empty" ELSE "nonempty"
    /\ UNCHANGED <<rpc, is_recording, process, recording_path, other_file,
                   other_owner, signals, stop_results, stop_calls, starts>>

\* The capture process exits by itself or is killed from outside.
FfmpegExit ==
    /\ process = "alive"
    /\ process' = "exited"
    /\ UNCHANGED <<rpc, is_recording, recording_path, expected_file, other_file,
                   other_owner, signals, stop_results, stop_calls, starts>>

\* Another worker writes a recording into the shared recording directory.
OtherWorkerWrites ==
    /\ other_file # "nonempty"
    /\ other_file' = IF other_file = "none" THEN "empty" ELSE "nonempty"
    /\ other_owner' = "other"
    /\ UNCHANGED <<rpc, is_recording, process, recording_path, expected_file,
                   signals, stop_results, stop_calls, starts>>

\* stop(): a live process is sent its signals and is gone afterwards; while
\* it shuts down it may still create or finish its file.
RecStop ==
    /\ rpc = "idle"
    /\ Len(stop_results) < MaxStops
    /\ \E qOk \in BOOLEAN, exitsInTime \in BOOLEAN,
          err \in {"none", "signal", "scan"}, after \in FileStates :
         LET running == is_recording /\ process # "none"
             live == running /\ process = "alive"
             r == RecorderStop(is_recording, process, recording_path = "set",
                               after, other_file, err)
         IN
         /\ IF live THEN FileRank(after) >= FileRank(expected_file)
                    ELSE after = expected_file
         /\ ~running => (err = "none" /\ qOk /\ exitsInTime)
         /\ (running /\ ~live) => (qOk /\ exitsInTime)
         /\ expected_file' = after
         /\ signals' = IF live /\ err # "signal"
                        THEN signals \o StopSignals(qOk, exitsInTime)
                        ELSE signals
         /\ process' = IF live /\ err # "signal" THEN "exited" ELSE process
         /\ is_recording' = r.rec
         /\ stop_results' = Append(stop_results, r.ret)
         /\ stop_calls' = Append(stop_calls,
                [rec |-> is_recording, proc |-> process, file |-> after,
                 other |-> other_file, owner |-> other_owner,
                 sent |-> IF live /\ err # "signal"
                          THEN StopSignals(qOk, exitsInTime) ELSE <<>>])
    /\ UNCHANGED <<rpc, recording_path, other_file, other_owner, starts>>

(***************************************************************************)
(* The meeting record and the transcription queue                          *)
(***************************************************************************)

\* update of meetings.status by `by`: the code filters on the id alone, so
\* the write happens whatever the status was.
StatusWrite(by, new) ==
    /\ mstatus' = new
    /\ last_write' = [by |-> by, old |-> mstatus, new |-> new]

NoStatusWrite == UNCHANGED <<mstatus, last_write>>

\* A meeting created by the scheduler or the API, and an empty queue.
DbInit ==
    /\ mstatus = "scheduled"
    /\ last_write = [by |-> "api", old |-> "scheduled", new |-> "scheduled"]
    /\ tq = 0

(***************************************************************************)
(* The worker's main()                                                     *)
(***************************************************************************)

EXIT_SUCCESS == 0
EXIT_ERROR == 1
EXIT_JOIN_FAILED == 2
EXIT_TIMEOUT == 3
EXIT_RECORDING_ERROR == 4
EXIT_UPLOAD_ERROR == 5

Last(q) == q[Len(q)]

\* main() before its try block: the locals are initialised.
MainInit ==
    /\ wpc = "start"
    /\ early \in BOOLEAN
    /\ has_key \in BOOLEAN
    /\ joined = FALSE
    /\ w_recording_path = "none"
    /\ is_uploaded = FALSE
    /\ transcription_path = FALSE
    /\ exit_code = EXIT_SUCCESS
    /\ shutdown_requested = FALSE
    /\ monitor_ticks = 0
    /\ meeting_ended = FALSE
    /\ failure = "none"
    /\ uploaded = {}
    /\ upload_failures = {}
    /\ file_at_cleanup = "unknown"

\* No worker process.
MainIdle ==
    /\ wpc = "none"
    /\ early = FALSE
    /\ has_key = FALSE
    /\ joined = FALSE
    /\ w_recording_path = "none"
    /\ is_uploaded = FALSE
    /\ transcription_path = FALSE
    /\ exit_code = EXIT_SUCCESS
    /\ shutdown_requested = FALSE
    /\ monitor_ticks = 0
    /\ meeting_ended = FALSE
    /\ failure = "none"
    /\ uploaded = {}
    /\ upload_failures = {}
    /\ file_at_cleanup = "unknown"

\* The first terminal failure is kept.
FirstFailure(kind) == IF failure = "none" THEN kind ELSE failure

\* A status write of main(): update_meeting_status raises when the store
\* fails, and then nothing is written.
WorkerStatus(new, okPc) ==
    \E dbOk \in BOOLEAN :
        IF dbOk
        THEN StatusWrite("worker", new) /\ wpc' = okPc
        ELSE NoStatusWrite /\ wpc' = "except"

\* The condition of the emergency upload in the finally block:
\* recording_path and not is_uploaded and the file exists with size > 0.
NeedsEmergencyUpload(path, isUploaded, expected, other) ==
    /\ path # "none"
    /\ ~isUploaded
    /\ IF path = "expected" THEN expected = "nonempty" ELSE other = "nonempty"

\* handle_shutdown_signal: SIGINT or SIGTERM sets the flag.
ShutdownSignal ==
    /\ wpc \notin {"none", "exited"}
    /\ ~shutdown_requested
    /\ shutdown_requested' = TRUE
    /\ UNCHANGED <<wpc, early, has_key, failure, meeting_ended, joined, w_recording_path, is_uploaded,
                   transcription_path, exit_code, monitor_ticks, uploaded,
                   upload_failures, file_at_cleanup>>
    /\ UNCHANGED <<recVars, dbVars>>

\* main(): status "joining", then the browser is started.
WStart ==
    /\ wpc = "start"
    /\ \E browserOk \in BOOLEAN :
         WorkerStatus("joining", IF ~browserOk THEN "except"
                                 ELSE IF early THEN "start_rec" ELSE "join")
    /\ failure' = IF wpc' = "except" THEN FirstFailure("other") ELSE failure
    /\ UNCHANGED <<early, has_key, meeting_ended, joined, w_recording_path, is_uploaded,
                   transcription_path, exit_code, shutdown_requested,
                   monitor_ticks, uploaded, upload_failures, file_at_cleanup>>
    /\ UNCHANGED <<recVars, tq>>

\* bot.start_recording(): Recorder.start() up to its grace period.
WStartRecording ==
    /\ wpc = "start_rec"
    /\ RecStart
    /\ wpc' = IF is_recording' THEN "start_rec_check" ELSE "except"
    /\ failure' = IF wpc' = "except" THEN FirstFailure("other") ELSE failure
    /\ UNCHANGED <<early, has_key, meeting_ended, joined, w_recording_path, is_uploaded,
                   transcription_path, exit_code, shutdown_requested,
                   monitor_ticks, uploaded, upload_failures, file_at_cleanup>>
    /\ UNCHANGED dbVars

\* bot.start_recording(): Recorder.start() after the grace period, then the
\* caption scraper is started; start_scraping can raise.
WStartRecordingCheck ==
    /\ wpc = "start_rec_check"
    /\ RecStartCheck
    /\ \E captionsOk \in BOOLEAN :
         wpc' = IF is_recording' /\ captionsOk
                THEN (IF joined THEN "monitor" ELSE "join")
                ELSE "except"
    /\ failure' = IF ~is_recording' THEN FirstFailure("recording")
                  ELSE IF wpc' = "except" THEN FirstFailure("other")
                  ELSE failure
    /\ UNCHANGED <<early, has_key, meeting_ended, joined, w_recording_path, is_uploaded,
                   transcription_path, exit_code, shutdown_requested,
                   monitor_ticks, uploaded, upload_failures, file_at_cleanup>>
    /\ UNCHANGED dbVars

\* `if not await bot.join_meeting()`: True, False, or an exception.
WJoin ==
    /\ wpc = "join"
    /\ \E r \in {"true", "false", "raise"} :
         /\ joined' = (r = "true")
         /\ wpc' = IF r = "true" THEN "status_recording"
                   ELSE IF r = "raise" THEN "except"
                   ELSE IF early THEN "early_stop" ELSE "join_failed"
    /\ failure' = IF wpc' = "except" THEN FirstFailure("other")
                  ELSE IF ~joined' THEN FirstFailure("join")
                  ELSE failure
    /\ UNCHANGED <<early, has_key, meeting_ended, w_recording_path, is_uploaded,
                   transcription_path, exit_code, shutdown_requested,
                   monitor_ticks, uploaded, upload_failures, file_at_cleanup>>
    /\ UNCHANGED <<recVars, dbVars>>

\* Join failure in early recording mode: the recording is stopped; an error
\* of stop_recording is logged and swallowed.
WEarlyStop ==
    /\ wpc = "early_stop"
    /\ RecStop
    /\ LET r == Last(stop_results') IN
         w_recording_path' = IF r \in {"raise", "null"} THEN w_recording_path ELSE r
    /\ wpc' = "join_failed"
    /\ UNCHANGED <<early, has_key, failure, meeting_ended, joined, is_uploaded, transcription_path,
                   exit_code, shutdown_requested, monitor_ticks, uploaded,
                   upload_failures, file_at_cleanup>>
    /\ UNCHANGED dbVars

\* Join failure: status "failed", exit code 2, return.
WJoinFailed ==
    /\ wpc = "join_failed"
    /\ WorkerStatus("failed", "finally")
    /\ exit_code' = IF wpc' = "finally" THEN EXIT_JOIN_FAILED ELSE exit_code
    /\ UNCHANGED <<early, has_key, failure, meeting_ended, joined, w_recording_path, is_uploaded,
                   transcription_path, shutdown_requested, monitor_ticks,
                   uploaded, upload_failures, file_at_cleanup>>
    /\ UNCHANGED <<recVars, tq>>

\* Status "recording"; the recording starts now unless it started early.
WStatusRecording ==
    /\ wpc = "status_recording"
    /\ WorkerStatus("recording", IF early THEN "monitor" ELSE "start_rec")
    /\ failure' = IF wpc' = "except" THEN FirstFailure("other") ELSE failure
    /\ UNCHANGED <<early, has_key, meeting_ended, joined, w_recording_path, is_uploaded,
                   transcription_path, exit_code, shutdown_requested,
                   monitor_ticks, uploaded, upload_failures, file_at_cleanup>>
    /\ UNCHANGED <<recVars, tq>>

\* A buggy variant of the tick: the shutdown flag is looked at last.
MonitorTickFlagLast(shutdown, ended, maxDuration) ==
    IF ended THEN "ended"
    ELSE IF maxDuration THEN "max_duration"
    ELSE IF shutdown THEN "shutdown"
    ELSE "sleep"

\* What one tick of monitor_with_shutdown does: the shutdown flag first,
\* then the end of the meeting, then the maximum duration, else it sleeps
\* 2 s.
MonitorTick(shutdown, ended, maxDuration) ==
    IF shutdown THEN "shutdown"
    ELSE IF ended THEN "ended"
    ELSE IF maxDuration THEN "max_duration"
    ELSE "sleep"

\* One tick of monitor_with_shutdown; meeting end and maximum duration set
\* bot.meeting_ended, the shutdown flag only leaves the loop.
WMonitorTick ==
    /\ wpc = "monitor"
    /\ \E ended \in BOOLEAN, maxDuration \in BOOLEAN :
         LET t == MonitorTick(shutdown_requested, ended, maxDuration) IN
         /\ t = "sleep" => monitor_ticks < MaxMonitorTicks
         /\ monitor_ticks' = monitor_ticks + 1
         /\ meeting_ended' = (t \in {"ended", "max_duration"})
         /\ wpc' = IF t = "sleep" THEN "monitor" ELSE "stop"
    /\ UNCHANGED <<early, has_key, failure, joined, w_recording_path, is_uploaded,
                   transcription_path, exit_code, shutdown_requested, uploaded,
                   upload_failures, file_at_cleanup>>
    /\ UNCHANGED <<recVars, dbVars>>

\* `recording_path = await bot.stop_recording()` after the monitoring loop.
WStop ==
    /\ wpc = "stop"
    /\ RecStop
    /\ LET r == Last(stop_results') IN
         /\ w_recording_path' = IF r \in {"raise", "null"} THEN w_recording_path ELSE r
         /\ wpc' = IF r = "raise" THEN "except"
                   ELSE IF r = "null" THEN "recording_failed"
                   ELSE "status_processing"
    /\ failure' = IF wpc' = "except" THEN FirstFailure("other")
                  ELSE IF wpc' = "recording_failed" THEN FirstFailure("recording")
                  ELSE failure
    /\ UNCHANGED <<early, has_key, meeting_ended, joined, is_uploaded, transcription_path,
                   exit_code, shutdown_requested, monitor_ticks, uploaded,
                   upload_failures, file_at_cleanup>>
    /\ UNCHANGED dbVars

\* No file was produced: status "failed", exit code 4, return.
WRecordingFailed ==
    /\ wpc = "recording_failed"
    /\ WorkerStatus("failed", "finally")
    /\ exit_code' = IF wpc' = "finally" THEN EXIT_RECORDING_ERROR ELSE exit_code
    /\ UNCHANGED <<early, has_key, failure, meeting_ended, joined, w_recording_path, is_uploaded,
                   transcription_path, shutdown_requested, monitor_ticks,
                   uploaded, upload_failures, file_at_cleanup>>
    /\ UNCHANGED <<recVars, tq>>

\* Status "processing"; leave_meeting swallows its errors.
WStatusProcessing ==
    /\ wpc = "status_processing"
    /\ WorkerStatus("processing", "upload")
    /\ failure' = IF wpc' = "except" THEN FirstFailure("other") ELSE failure
    /\ UNCHANGED <<early, has_key, meeting_ended, joined, w_recording_path, is_uploaded,
                   transcription_path, exit_code, shutdown_requested,
                   monitor_ticks, uploaded, upload_failures, file_at_cleanup>>
    /\ UNCHANGED <<recVars, tq>>

\* The upload in the try block: is_uploaded on success, "Upload failed" is
\* logged otherwise.
WUpload ==
    /\ wpc = "upload"
    /\ \E ok \in BOOLEAN :
         IF ok
         THEN /\ uploaded' = uploaded \cup {w_recording_path}
              /\ is_uploaded' = TRUE
              /\ wpc' = "status_transcribing"
              /\ UNCHANGED upload_failures
         ELSE /\ upload_failures' = upload_failures \cup {w_recording_path}
              /\ wpc' = "upload_failed"
              /\ UNCHANGED <<uploaded, is_uploaded>>
    /\ failure' = IF wpc' = "upload_failed" THEN FirstFailure("upload") ELSE failure
    /\ UNCHANGED <<early, has_key, meeting_ended, joined, w_recording_path, transcription_path,
                   exit_code, shutdown_requested, monitor_ticks, file_at_cleanup>>
    /\ UNCHANGED <<recVars, dbVars>>

\* Upload failure: status "failed", exit code 5, return.
WUploadFailed ==
    /\ wpc = "upload_failed"
    /\ WorkerStatus("failed", "finally")
    /\ exit_code' = IF wpc' = "finally" THEN EXIT_UPLOAD_ERROR ELSE exit_code
    /\ UNCHANGED <<early, has_key, failure, meeting_ended, joined, w_recording_path, is_uploaded,
                   transcription_path, shutdown_requested, monitor_ticks,
                   uploaded, upload_failures, file_at_cleanup>>
    /\ UNCHANGED <<recVars, tq>>

\* Status "transcribing".
WStatusTranscribing ==
    /\ wpc = "status_transcribing"
    /\ WorkerStatus("transcribing", "transcribe")
    /\ failure' = IF wpc' = "except" THEN FirstFailure("other") ELSE failure
    /\ UNCHANGED <<early, has_key, meeting_ended, joined, w_recording_path, is_uploaded,
                   transcription_path, exit_code, shutdown_requested,
                   monitor_ticks, uploaded, upload_failures, file_at_cleanup>>
    /\ UNCHANGED <<recVars, tq>>

\* The direct transcription: only with an API key.  transcription_path is
\* set once transcribe_audio has returned; the transcript is then saved and
\* uploaded.  An error of any of the three is logged and swallowed.
WTranscribe ==
    /\ wpc = "transcribe"
    /\ \E ok \in BOOLEAN, uploadOk \in BOOLEAN :
         /\ transcription_path' = (has_key /\ ok)
         /\ uploaded' = IF has_key /\ ok /\ uploadOk
                        THEN uploaded \cup {"transcription"}
                        ELSE uploaded
    /\ wpc' = "record"
    /\ UNCHANGED <<early, has_key, failure, meeting_ended, joined, w_recording_path, is_uploaded,
                   exit_code, shutdown_requested, monitor_ticks,
                   upload_failures, file_at_cleanup>>
    /\ UNCHANGED <<recVars, dbVars>>

\* Nothing scraped: the state of a worker before its scraper has received
\* a caption.
ScrapeIdle == scraped = FALSE

\* The page hands a caption of a participant to the scraper's
\* handle_caption while the bot is in the meeting: the scraper holds a
\* segment from then on.
WCaption ==
    /\ wpc = "monitor"
    /\ ~scraped
    /\ scraped' = TRUE

\* The recording record is created and, when nothing was transcribed, a
\* transcription job is enqueued; errors of either are logged and swallowed.
WRecord ==
    /\ wpc = "record"
    /\ \E recordOk \in BOOLEAN, enqueueOk \in BOOLEAN :
         tq' = IF recordOk /\ ~transcription_path /\ enqueueOk THEN tq + 1 ELSE tq
    /\ wpc' = "status_completed"
    /\ UNCHANGED <<early, has_key, failure, meeting_ended, joined, w_recording_path, is_uploaded,
                   transcription_path, exit_code, shutdown_requested,
                   monitor_ticks, uploaded, upload_failures, file_at_cleanup>>
    /\ UNCHANGED <<recVars, mstatus, last_write>>

\* Status "completed".
WStatusCompleted ==
    /\ wpc = "status_completed"
    /\ WorkerStatus("completed", "finally")
    /\ failure' = IF wpc' = "except" THEN FirstFailure("other") ELSE failure
    /\ UNCHANGED <<early, has_key, meeting_ended, joined, w_recording_path, is_uploaded,
                   transcription_path, exit_code, shutdown_requested,
                   monitor_ticks, uploaded, upload_failures, file_at_cleanup>>
    /\ UNCHANGED <<recVars, tq>>

\* `except Exception`: status "failed" with the error text (a failure of
\* this write is swallowed), exit code 1.
WExcept ==
    /\ wpc = "except"
    /\ \E dbOk \in BOOLEAN :
         IF dbOk THEN StatusWrite("worker", "failed") ELSE NoStatusWrite
    /\ exit_code' = EXIT_ERROR
    /\ wpc' = "finally"
    /\ UNCHANGED <<early, has_key, failure, meeting_ended, joined, w_recording_path, is_uploaded,
                   transcription_path, shutdown_requested, monitor_ticks,
                   uploaded, upload_failures, file_at_cleanup>>
    /\ UNCHANGED <<recVars, tq>>

\* finally, first part: a recording still in progress is stopped and its
\* file becomes recording_path.  An error of stop_recording leaves the
\* whole block ("Error in finally block"), the emergency upload included.
WFinallyStop ==
    /\ wpc = "finally"
    /\ IF is_recording
       THEN /\ RecStop
            /\ LET r == Last(stop_results') IN
                 /\ w_recording_path' =
                        IF r \in {"raise", "null"} THEN w_recording_path ELSE r
                 /\ wpc' = IF r = "raise" THEN "cleanup" ELSE "emergency"
       ELSE /\ UNCHANGED recVars
            /\ UNCHANGED w_recording_path
            /\ wpc' = "emergency"
    /\ file_at_cleanup' = expected_file'
    /\ UNCHANGED <<early, has_key, failure, meeting_ended, joined, is_uploaded, transcription_path,
                   exit_code, shutdown_requested, monitor_ticks, uploaded,
                   upload_failures>>
    /\ UNCHANGED dbVars

\* finally, second part: the emergency upload; its failure is logged.
WEmergencyUpload ==
    /\ wpc = "emergency"
    /\ IF NeedsEmergencyUpload(w_recording_path, is_uploaded, expected_file,
                               other_file)
       THEN \E ok \in BOOLEAN :
              IF ok
              THEN /\ uploaded' = uploaded \cup {w_recording_path}
                   /\ UNCHANGED upload_failures
              ELSE /\ upload_failures' = upload_failures \cup {w_recording_path}
                   /\ UNCHANGED uploaded
       ELSE UNCHANGED <<uploaded, upload_failures>>
    /\ wpc' = "cleanup"
    /\ UNCHANGED <<early, has_key, failure, meeting_ended, joined, w_recording_path, is_uploaded,
                   transcription_path, exit_code, shutdown_requested,
                   monitor_ticks, file_at_cleanup>>
    /\ UNCHANGED <<recVars, dbVars>>

\* bot.cleanup(), the queue connection is closed, sys.exit(exit_code).
WCleanup ==
    /\ wpc = "cleanup"
    /\ wpc' = "exited"
    /\ UNCHANGED <<early, has_key, failure, meeting_ended, joined, w_recording_path, is_uploaded,
                   transcription_path, exit_code, shutdown_requested,
                   monitor_ticks, uploaded, upload_failures, file_at_cleanup>>
    /\ UNCHANGED <<recVars, dbVars>>

(***************************************************************************)
(* The transcription consumer and the API, as writers of the meeting       *)
(***************************************************************************)

\* TranscriptionWorker.process_job: meeting status "completed" on success,
\* "failed" when the transcription raised; no write when the recording is
\* not found or the transcription record cannot be created.
TranscriptionProcessJob ==
    /\ tq > 0
    /\ tq' = tq - 1
    /\ \E out \in {"completed", "failed", "skipped"} :
         IF out = "skipped" THEN NoStatusWrite ELSE StatusWrite("consumer", out)
    /\ UNCHANGED <<recVars, mainVars>>

\* cancel_meeting: allowed while the status is scheduled, joining or waiting.
ApiCancel ==
    /\ mstatus \in {"scheduled", "joining", "waiting"}
    /\ StatusWrite("api", "cancelled")
    /\ UNCHANGED tq
    /\ UNCHANGED <<recVars, mainVars>>

\* retry_meeting: a failed meeting is reset to scheduled.
ApiRetry ==
    /\ mstatus = "failed"
    /\ StatusWrite("api", "scheduled")
    /\ UNCHANGED tq
    /\ UNCHANGED <<recVars, mainVars>>

(***************************************************************************)
(* The orchestrator and its ContainerManager                               *)
(***************************************************************************)

\* Meeting ids are UUIDs; spawn_bot uses their first 8 characters.  An id
\* is modelled as <<first 8 characters, rest>>.
Meetings == {<<"a", "1">>, <<"a", "2">>, <<"b", "1">>}

\* The meeting whose record is mstatus.
TrackedMeeting == <<"a", "1">>

\* The data of a join job: fields that are missing or empty are "none".
\* The id of a job that carries none.
NoMeeting == <<"", "">>

JobData == [meeting_id : Meetings \cup {NoMeeting},
            meeting_url : {"set", "none"},
            user_id : {"set", "none"}]

\* The parameters of ContainerManager.spawn_bot.
SpawnBotParams == {"meeting_id", "meeting_url", "user_id"}

\* The keyword arguments process_job passes to spawn_bot.
ProcessJobKwargs == {"meeting_id", "meeting_url", "user_id",
                     "bot_display_name", "bot_camera_enabled"}

\* A call with keyword arguments binds when every keyword is a parameter
\* and every parameter (none has a default) is given; else TypeError.
CallBinds(kwargs, params) == kwargs \subseteq params /\ params \subseteq kwargs

\* A buggy variant of the container name: one name per spawn.
ContainerNameFresh(meeting_id) == <<meeting_id, spawn_count>>

\* container_name = f"ma-meet-bot-{meeting_id[:8]}"
ContainerName(meeting_id) == meeting_id[1]

\* The Docker daemon refuses a name that a container, running or not yet
\* removed, already has.
NameTaken(name) == \E c \in containers : c.name = name

NoSpawn == [meeting |-> NoMeeting, result |-> "none", taken |-> FALSE]

OrchInit ==
    /\ jq = <<>>
    /\ enqueued = 0
    /\ job_log = <<>>
    /\ containers = {}
    /\ active_containers = {}
    /\ spawn_count = 0
    /\ last_spawn = NoSpawn

\* spawn_bot(meeting_id, meeting_url, user_id): containers.run with the
\* name, detached and auto-removed; the container is tracked under its
\* meeting id.  Any error of the daemon makes spawn_bot return None.
SpawnBot(meeting_id, dockerOk) ==
    LET name == ContainerName(meeting_id)
        ok == dockerOk /\ ~NameTaken(name) /\ spawn_count < MaxSpawns
    IN
    /\ last_spawn' = [meeting |-> meeting_id,
                      result |-> IF ok THEN "handle" ELSE "none",
                      taken |-> NameTaken(name)]
    /\ IF ok
       THEN /\ spawn_count' = spawn_count + 1
            /\ containers' = containers \cup
                   {[name |-> name, meeting |-> meeting_id,
                     id |-> spawn_count + 1, state |-> "running"]}
            /\ active_containers' =
                   {p \in active_containers : p[1] # meeting_id}
                       \cup {<<meeting_id, spawn_count + 1>>}
       ELSE UNCHANGED <<spawn_count, containers, active_containers>>

\* A call of spawn_bot with the arguments of its signature.
SpawnBotCall ==
    /\ \E m \in Meetings, dockerOk \in BOOLEAN : SpawnBot(m, dockerOk)
    /\ UNCHANGED <<jq, enqueued, job_log>>

\* stop_bot(meeting_id): no tracked container -> False; container.stop()
\* and the entry is deleted; an error of stop() (the container is already
\* gone, the daemon fails) leaves the entry.
StopBot ==
    /\ \E m \in Meetings, dockerOk \in BOOLEAN :
         LET tracked == {p \in active_containers : p[1] = m}
             alive == {c \in containers : \E p \in tracked : c.id = p[2]}
         IN
         IF tracked # {} /\ alive # {} /\ dockerOk
         THEN /\ containers' = (containers \ alive) \cup
                     {[c EXCEPT !.state = "exited"] : c \in alive}
              /\ active_containers' = active_containers \ tracked
         ELSE UNCHANGED <<containers, active_containers>>
    /\ UNCHANGED <<jq, enqueued, job_log, spawn_count, last_spawn>>

\* cleanup_dead_containers (run by get_active_count in health_check_loop):
\* entries whose container is exited, dead, removing or gone are dropped.
CleanupDeadContainers ==
    /\ active_containers' =
           {p \in active_containers :
               \E c \in containers : c.id = p[2] /\ c.state = "running"}
    /\ UNCHANGED <<jq, enqueued, job_log, containers, spawn_count, last_spawn>>

\* The worker process of a container exits (sys.exit at the end of main()).
WorkerExits ==
    /\ \E c \in containers :
         /\ c.state = "running"
         /\ containers' = (containers \ {c}) \cup {[c EXCEPT !.state = "exited"]}
    /\ UNCHANGED <<jq, enqueued, job_log, active_containers, spawn_count,
                   last_spawn>>

\* auto_remove=True: the daemon removes an exited container and its name
\* becomes free.
AutoRemove ==
    /\ \E c \in containers :
         /\ c.state = "exited"
         /\ containers' = containers \ {c}
    /\ UNCHANGED <<jq, enqueued, job_log, active_containers, spawn_count,
                   last_spawn>>

\* The scheduler or retry_meeting pushes a join job.
EnqueueJoinJob ==
    /\ enqueued < MaxJobs
    /\ \E data \in JobData : jq' = Append(jq, data)
    /\ enqueued' = enqueued + 1
    /\ UNCHANGED <<job_log, containers, active_containers, spawn_count,
                   last_spawn>>
    /\ UNCHANGED dbVars

\* BotOrchestrator.update_meeting_status: the write, or a logged error.
OrchStatusWrite(meeting_id, status, dbOk) ==
    IF dbOk /\ meeting_id = TrackedMeeting
    THEN StatusWrite("orchestrator", status)
    ELSE NoStatusWrite

\* One iteration of run() that got a job: process_job.  Incomplete data is
\* logged and the job dropped; the spawn_bot call raises TypeError when it
\* does not bind, which run() logs; else status joining for a handle and
\* failed for None.
ProcessJob ==
    /\ jq # <<>>
    /\ jq' = Tail(jq)
    /\ LET data == Head(jq) IN
       IF data.meeting_id = NoMeeting \/ "none" \in {data.meeting_url, data.user_id}
       THEN /\ job_log' = Append(job_log, [outcome |-> "incomplete", writes |-> <<>>,
                                            error_message |-> "none"])
            /\ NoStatusWrite
            /\ UNCHANGED <<containers, active_containers, spawn_count, last_spawn>>
       ELSE IF ~CallBinds(ProcessJobKwargs, SpawnBotParams)
       THEN /\ job_log' = Append(job_log, [outcome |-> "raised", writes |-> <<>>,
                                            error_message |-> "none"])
            /\ NoStatusWrite
            /\ UNCHANGED <<containers, active_containers, spawn_count, last_spawn>>
       ELSE \E dockerOk \in BOOLEAN, dbOk \in BOOLEAN :
            /\ SpawnBot(data.meeting_id, dockerOk)
            /\ LET status == IF last_spawn'.result = "handle"
                             THEN "joining" ELSE "failed"
               IN /\ job_log' = Append(job_log,
                         [outcome |-> last_spawn'.result,
                          writes |-> IF dbOk THEN <<status>> ELSE <<>>,
                          error_message |->
                              IF dbOk /\ status = "failed"
                              THEN "Failed to spawn bot container"
                              ELSE "none"])
                  /\ OrchStatusWrite(data.meeting_id, status, dbOk)
    /\ UNCHANGED <<enqueued, tq>>

(***************************************************************************)
(* CaptionScraper                                                          *)
(***************************************************************************)

\* Speaker names as the words they are made of.
Speakers == {<<"Ana">>, <<"Rui">>, <<"RKJ", "Bot">>}

\* Caption texts: "x", "xx", ... up to MaxTextLen letters, each one the
\* start of the next, and "y", which starts none of them and none of which
\* it starts.
Letters == {"x", "y"}
Texts ==
    {[k \in 1..n |-> "x"] : n \in 1..MaxTextLen} \cup {<<"y">>}

\* The time between two caption events, in ms.
Gaps == {0, 1500}

\* 'Bot' in speaker or 'Meeting-Assistant' in speaker
IsOwnCaption(speaker) ==
    \E i \in DOMAIN speaker : speaker[i] \in {"Bot", "Meeting-Assistant"}

\* text.startswith(prefix)
StartsWith(text, prefix) ==
    Len(prefix) <= Len(text) /\ SubSeq(text, 1, Len(prefix)) = prefix

\* A buggy variant of the new segment: it ends where it starts, less the
\* second.
CaptionSegmentEndsEarly(speaker, text, elapsed_ms) ==
    [speaker |-> speaker, text |-> text,
     start_ms |-> elapsed_ms, end_ms |-> elapsed_ms - 1000]

\* The segment handle_caption opens: it starts now and ends a second later.
CaptionSegment(speaker, text, elapsed_ms) ==
    [speaker |-> speaker, text |-> text,
     start_ms |-> elapsed_ms, end_ms |-> elapsed_ms + 1000]

\* The position of the speaker's segment in _active_segments, 0 if none.
ActiveIndex(active, speaker) ==
    IF \E i \in DOMAIN active : active[i].speaker = speaker
    THEN CHOOSE i \in DOMAIN active : active[i].speaker = speaker
    ELSE 0

\* A buggy variant of the update of the open segment: its start moves too.
TouchSegmentRestarts(active, text, elapsed_ms) ==
    [active EXCEPT !.text = text, !.start_ms = elapsed_ms,
                   !.end_ms = elapsed_ms]

\* The update of the open segment: active.text = text and
\* active.end_ms = elapsed_ms.
TouchSegment(active, text, elapsed_ms) ==
    [active EXCEPT !.text = text, !.end_ms = elapsed_ms]

\* What handle_caption does with an event: "filtered" for the bot's own
\* captions; for a speaker with an open segment "extended" when the text
\* starts with the open text or is longer, else "replaced"; "opened" for a
\* speaker without one.
HandleCaptionKind(active, speaker, text) ==
    IF IsOwnCaption(speaker) THEN "filtered"
    ELSE IF ActiveIndex(active, speaker) = 0 THEN "opened"
    ELSE IF StartsWith(text, active[ActiveIndex(active, speaker)].text)
            \/ Len(text) > Len(active[ActiveIndex(active, speaker)].text)
    THEN "extended"
    ELSE "replaced"

\* CaptionScraper.__init__
CapInit ==
    /\ is_scraping = FALSE
    /\ start_time = "none"
    /\ now_ms = 0
    /\ segments = <<>>
    /\ active_segments = <<>>
    /\ events = <<>>

\* start_scraping: the flag, the start time, empty lists; the callback is
\* exposed to the page.
StartScraping ==
    /\ start_time = "none"
    /\ is_scraping' = TRUE
    /\ start_time' = "set"
    /\ now_ms' = 0
    /\ segments' = <<>>
    /\ active_segments' = <<>>
    /\ UNCHANGED events

\* handle_caption(speaker, text, timestamp_ms), called by the page for each
\* caption it emits.
HandleCaption ==
    /\ start_time = "set"
    /\ Len(events) < MaxEvents
    /\ \E speaker \in Speakers, text \in Texts, gap \in Gaps :
         LET elapsed_ms == now_ms + gap
             kind == HandleCaptionKind(active_segments, speaker, text)
             i == ActiveIndex(active_segments, speaker)
         IN
         /\ elapsed_ms <= MaxElapsedMs
         /\ now_ms' = elapsed_ms
         /\ segments' = IF kind = "replaced"
                        THEN Append(segments, active_segments[i])
                        ELSE segments
         /\ events' = Append(events, [speaker |-> speaker, text |-> text,
                                      t |-> elapsed_ms, kind |-> kind,
                                      closed |-> Len(segments')])
         /\ active_segments' =
              IF kind = "filtered" THEN active_segments
              ELSE IF kind = "opened"
              THEN Append(active_segments,
                          CaptionSegment(speaker, text, elapsed_ms))
              ELSE IF kind = "extended"
              THEN [active_segments EXCEPT
                       ![i] = TouchSegment(@, text, elapsed_ms)]
              ELSE [active_segments EXCEPT
                       ![i] = CaptionSegment(speaker, text, elapsed_ms)]
    /\ UNCHANGED <<is_scraping, start_time>>

\* A buggy variant of the flush: only the segment opened first is kept.
FlushOldestOnly(closed, active) ==
    IF active = <<>> THEN closed ELSE Append(closed, Head(active))

\* The flush loop of stop_scraping: every open segment is appended to the
\* closed list, in the order of the dict.
Flush(closed, active) == closed \o active

\* stop_scraping: the open segments are appended to the closed list in the
\* order of the dict, which is then emptied.
StopScraping ==
    /\ start_time = "set"
    /\ is_scraping
    /\ is_scraping' = FALSE
    /\ segments' = Flush(segments, active_segments)
    /\ active_segments' = <<>>
    /\ UNCHANGED <<start_time, now_ms, events>>

(***************************************************************************)
(* process_segments (TranscriptionWorker) and _process_segments            *)
(* (TranscriptionService of the API)                                       *)
(***************************************************************************)

\* MIN_TEXT_LENGTH of process_segments
MIN_TEXT_LENGTH == 3
\* MIN_CONFIDENCE of process_segments, in hundredths
MIN_CONFIDENCE == 40

\* The number of characters of the words of the model.
WordLength(word) ==
    CASE word = "a" -> 1
      [] word = "oi" -> 2
      [] word = "ola" -> 3
      [] word = "like" -> 4

\* The texts of the model, stripped, as their words.
SegmentTexts ==
    {<<"a">>, <<"oi">>, <<"ola">>, <<"like">>, <<"ola", "a">>,
     <<"ola", "ola", "ola", "ola">>}

\* The confidences of the model: <<>> for none, else hundredths.
Confidences == {<<>>, <<30>>, <<90>>}

\* len(text): the characters of the words and a space between two words.
RECURSIVE TextLength(_)
TextLength(words) ==
    IF words = <<>> THEN 0
    ELSE IF Len(words) = 1 THEN WordLength(words[1])
    ELSE WordLength(words[1]) + 1 + TextLength(Tail(words))

\* _is_hallucination: the text is one of the patterns ("oi" and "like"
\* among the words of the model), or has four words or more of at most two
\* different ones.
IsHallucination(words) ==
    \/ words \in {<<"oi">>, <<"like">>}
    \/ /\ Len(words) >= 2
       /\ Cardinality({words[k] : k \in DOMAIN words}) <= 2
       /\ Len(words) >= 4

\* The three filters of process_segments.
Skipped(segment) ==
    \/ TextLength(segment.text) < MIN_TEXT_LENGTH
    \/ segment.confidence # <<>> /\ segment.confidence[1] < MIN_CONFIDENCE
    \/ IsHallucination(segment.text)

\* A buggy variant of the row: the index is the position in the input.
SegmentRowByPosition(segment, i, kept) ==
    [segment_index |-> i - 1, start_time_ms |-> segment.start,
     text |-> segment.text, confidence |-> segment.confidence]

\* The row appended for the i-th input segment when `kept` rows are there:
\* "segment_index": len(segments).
SegmentRow(segment, i, kept) ==
    [segment_index |-> Len(kept), start_time_ms |-> segment.start,
     text |-> segment.text, confidence |-> segment.confidence]

\* The loop of process_segments from input segment i on.
RECURSIVE ProcessSegmentsFrom(_, _, _)
ProcessSegmentsFrom(input, i, kept) ==
    IF i > Len(input) THEN kept
    ELSE IF Skipped(input[i]) THEN ProcessSegmentsFrom(input, i + 1, kept)
    ELSE ProcessSegmentsFrom(input, i + 1,
                             Append(kept, SegmentRow(input[i], i, kept)))

\* TranscriptionService._process_segments: no filter, "segment_index": i.
ApiProcessSegmentsOf(input) ==
    [i \in DOMAIN input |->
        [segment_index |-> i - 1, start_time_ms |-> input[i].start,
         text |-> input[i].text, confidence |-> input[i].confidence]]

\* The results of the model: up to MaxSegments segments, the i-th starting
\* at second i.
EngineSegmentLists ==
    UNION {{list \in [1..n -> [text : SegmentTexts, confidence : Confidences,
                               start : {1000 * k : k \in 1..n}]] :
                \A k \in 1..n : list[k].start = 1000 * k}
           : n \in 0..MaxSegments}

\* No result to process.
SegmentsIdle ==
    /\ result_segments = <<>>
    /\ processed_by = "none"
    /\ db_segments = <<>>

\* A transcription result has arrived.
SegmentsInit ==
    /\ result_segments \in EngineSegmentLists
    /\ processed_by = "none"
    /\ db_segments = <<>>

\* TranscriptionWorker.process_segments
ProcessSegments ==
    /\ processed_by = "none"
    /\ processed_by' = "worker"
    /\ db_segments' = ProcessSegmentsFrom(result_segments, 1, <<>>)
    /\ UNCHANGED <<captions, lookups, total_duration_ms, file_size_mb, cpc,
                   chunks, start, all_segments, full_text_parts, full_text,
                   engine_calls, result_segments>>

\* TranscriptionService._process_segments
ApiProcessSegments ==
    /\ processed_by = "none"
    /\ processed_by' = "api"
    /\ db_segments' = ApiProcessSegmentsOf(result_segments)
    /\ UNCHANGED <<captions, lookups, total_duration_ms, file_size_mb, cpc,
                   chunks, start, all_segments, full_text_parts, full_text,
                   engine_calls, result_segments>>

(***************************************************************************)
(* Speaker attribution: get_speaker_at_time of Transcriber.transcribe_audio *)
(* (meet-bot) and of SpeakerAttributor (transcription-worker)              *)
(***************************************************************************)

\* TIME_TOLERANCE_MS of both functions
TIME_TOLERANCE_MS == 5000

\* The value None.
NoSpeaker == <<>>

\* The start and end times of the caption segments of the model, and the
\* timestamps looked up.
SegmentTimes == {0, 1000, 7000}
LookupTimes == {500, 2000, 3000, 6000, 13000}

\* The caption segments a caption log can hold: start_ms <= end_ms.
CaptionLogSegments ==
    {seg \in [speaker : {<<"Ana">>, <<"Rui">>},
              start_ms : SegmentTimes, end_ms : SegmentTimes] :
        seg.start_ms <= seg.end_ms}

\* The caption logs of the model, in any order of their segments.
CaptionLogs == UNION {[1..n -> CaptionLogSegments] : n \in 0..MaxCaptions}

\* The distance of a timestamp to a segment that does not contain it.
Distance(seg, timestamp_ms) ==
    IF timestamp_ms < seg.start_ms
    THEN seg.start_ms - timestamp_ms
    ELSE timestamp_ms - seg.end_ms

\* The first loop of get_speaker_at_time from segment i on. best_score is
\* <<>> for float('inf'), else <<distance>>. The result tells whether the
\* loop returned a direct match, and the speaker it returned or kept.
RECURSIVE ClosestSpeaker(_, _, _, _, _)
ClosestSpeaker(caps, timestamp_ms, i, best_match, best_score) ==
    IF i > Len(caps)
    THEN [direct |-> FALSE, speaker |-> best_match]
    ELSE IF caps[i].start_ms <= timestamp_ms /\ timestamp_ms <= caps[i].end_ms
    THEN [direct |-> TRUE, speaker |-> caps[i].speaker]
    ELSE IF /\ Distance(caps[i], timestamp_ms) < TIME_TOLERANCE_MS
            /\ (best_score = <<>>
                \/ Distance(caps[i], timestamp_ms) < best_score[1])
    THEN ClosestSpeaker(caps, timestamp_ms, i + 1, caps[i].speaker,
                        <<Distance(caps[i], timestamp_ms)>>)
    ELSE ClosestSpeaker(caps, timestamp_ms, i + 1, best_match, best_score)

\* The second loop of the Transcriber's function, over reversed(caps), from
\* segment i down: the first segment with end_ms <= timestamp + tolerance.
RECURSIVE MostRecentSpeaker(_, _, _)
MostRecentSpeaker(caps, timestamp_ms, i) ==
    IF i = 0 THEN NoSpeaker
    ELSE IF caps[i].end_ms <= timestamp_ms + TIME_TOLERANCE_MS
    THEN caps[i].speaker
    ELSE MostRecentSpeaker(caps, timestamp_ms, i - 1)

\* A buggy variant of the lookup: the answer depends on the calls made
\* before.
GetSpeakerByTurns(caps, timestamp_ms) ==
    IF caps = <<>> THEN NoSpeaker
    ELSE caps[(Len(lookups) % Len(caps)) + 1].speaker

\* SpeakerAttributor.get_speaker_at_time (transcription-worker)
AttributorGetSpeakerAtTime(caps, timestamp_ms) ==
    IF caps = <<>> THEN NoSpeaker
    ELSE ClosestSpeaker(caps, timestamp_ms, 1, NoSpeaker, <<>>).speaker

\* get_speaker_at_time of Transcriber.transcribe_audio (meet-bot)
TranscriberGetSpeakerAtTime(caps, timestamp_ms) ==
    IF caps = <<>> THEN NoSpeaker
    ELSE LET first == ClosestSpeaker(caps, timestamp_ms, 1, NoSpeaker, <<>>)
         IN IF first.direct \/ first.speaker # NoSpeaker
            THEN first.speaker
            ELSE MostRecentSpeaker(caps, timestamp_ms, Len(caps))

\* No caption log, no lookup.
AttributionIdle ==
    /\ captions = <<>>
    /\ lookups = <<>>

\* A caption log was loaded.
AttributionInit ==
    /\ captions \in CaptionLogs
    /\ lookups = <<>>

\* One call of SpeakerAttributor.get_speaker_at_time.
AttributorLookup ==
    /\ Len(lookups) < MaxLookups
    /\ \E timestamp_ms \in LookupTimes :
         lookups' = Append(lookups,
            [by |-> "attributor", t |-> timestamp_ms, caps |-> captions,
             speaker |-> AttributorGetSpeakerAtTime(captions, timestamp_ms)])
    /\ UNCHANGED <<captions, total_duration_ms, file_size_mb, cpc, chunks,
                   start, all_segments, full_text_parts, full_text, engine_calls,
                   result_segments, processed_by, db_segments>>

\* One call of the Transcriber's get_speaker_at_time.
TranscriberLookup ==
    /\ Len(lookups) < MaxLookups
    /\ \E timestamp_ms \in LookupTimes :
         lookups' = Append(lookups,
            [by |-> "transcriber", t |-> timestamp_ms, caps |-> captions,
             speaker |-> TranscriberGetSpeakerAtTime(captions, timestamp_ms)])
    /\ UNCHANGED <<captions, total_duration_ms, file_size_mb, cpc, chunks,
                   start, all_segments, full_text_parts, full_text, engine_calls,
                   result_segments, processed_by, db_segments>>

(***************************************************************************)
(* The audio chunker: transcribe_large_file and the size test before it    *)
(* (Transcriber in meet-bot, TranscriptionWorker in transcription-worker;  *)
(* the two are the same statements). Sizes are in MiB, times in ms.        *)
(***************************************************************************)

\* MAX_FILE_SIZE_MB of both modules
MAX_FILE_SIZE_MB == 25
\* target_chunk_bytes = 20 * 1024 * 1024, in MiB
TARGET_CHUNK_MB == 20
\* the minimum chunk length 60 * 1000
MIN_CHUNK_MS == 60000

\* The files of the model: their durations and sizes.
Durations == {100000, 120000, 4200000}
FileSizes == {10, 25, 26, 30, 70, 100}

\* The texts the engine returns for one call.
EngineTexts == {"a", "b"}

Max(a, b) == IF a > b THEN a ELSE b

\* A buggy variant of the chunk length: no minimum, and the whole ceiling
\* as target.
ChunkDurationMsAtCeiling(size_mb, duration_ms) ==
    (MAX_FILE_SIZE_MB * duration_ms) \div size_mb + 1

\* chunk_duration_ms: int(target_chunk_bytes / bytes_per_ms) with
\* bytes_per_ms = file_size / total_duration_ms, at least one minute.
ChunkDurationMs(size_mb, duration_ms) ==
    Max((TARGET_CHUNK_MB * duration_ms) \div size_mb, MIN_CHUNK_MS)

\* A buggy variant of the end of a window: not cut at the end of the audio.
ChunkEndUncut(from, chunk_duration_ms, duration_ms) ==
    from + chunk_duration_ms

\* end = min(start + chunk_duration_ms, total_duration_ms)
ChunkEnd(from, chunk_duration_ms, duration_ms) ==
    Min(from + chunk_duration_ms, duration_ms)

\* What the engine can return for an audio of the given length: no segment,
\* one segment (to the end or to the middle), or two, sorted and within the
\* audio; and a text.
EngineSegments(length_ms) ==
    {<<>>,
     <<[start |-> 0, end |-> length_ms]>>,
     <<[start |-> 0, end |-> length_ms \div 2]>>,
     <<[start |-> 0, end |-> length_ms \div 2],
       [start |-> length_ms \div 2, end |-> length_ms]>>}

EngineResults(length_ms) ==
    [text : EngineTexts, segments : EngineSegments(length_ms)]

\* A buggy variant of the adjustment: the times are left as they are.
AdjustNot(segment, window, start_ms) ==
    [start |-> segment.start, end |-> segment.end,
     window |-> window, raw |-> segment]

\* segment["start"] += start_ms / 1000; segment["end"] += start_ms / 1000.
\* The window and the times before the adjustment are kept with the segment.
Adjust(segment, window, start_ms) ==
    [start |-> segment.start + start_ms, end |-> segment.end + start_ms,
     window |-> window, raw |-> segment]

\* The segments of one result, adjusted in their order.
AdjustAll(returned, window, start_ms) ==
    [k \in DOMAIN returned |-> Adjust(returned[k], window, start_ms)]

\* " ".join(full_text_parts), as the sequence of the parts and the spaces
\* between them.
Join(parts) ==
    IF parts = <<>> THEN <<>>
    ELSE [k \in 1..(2 * Len(parts) - 1) |->
            IF k % 2 = 1 THEN parts[(k + 1) \div 2] ELSE " "]

\* No file to transcribe.
ChunkerIdle ==
    /\ total_duration_ms = 0
    /\ file_size_mb = 0
    /\ cpc = "done"
    /\ chunks = <<>>
    /\ start = 0
    /\ all_segments = <<>>
    /\ full_text_parts = <<>>
    /\ full_text = <<>>
    /\ engine_calls = <<>>

\* A file was downloaded (or recorded) and its audio loaded.
ChunkerInit ==
    /\ total_duration_ms \in Durations
    /\ file_size_mb \in FileSizes
    /\ cpc = "idle"
    /\ chunks = <<>>
    /\ start = 0
    /\ all_segments = <<>>
    /\ full_text_parts = <<>>
    /\ full_text = <<>>
    /\ engine_calls = <<>>

TxIdle == AttributionIdle /\ ChunkerIdle /\ SegmentsIdle

\* The size test: a file above MAX_FILE_SIZE_BYTES goes to
\* transcribe_large_file, which starts its while loop.
TranscribeLarge ==
    /\ cpc = "idle"
    /\ file_size_mb > MAX_FILE_SIZE_MB
    /\ cpc' = "split"
    /\ chunks' = <<>>
    /\ start' = 0
    /\ UNCHANGED <<captions, lookups, total_duration_ms, file_size_mb,
                   all_segments, full_text_parts, full_text, engine_calls,
                   result_segments, processed_by, db_segments>>

\* The size test: any other file is sent whole by transcribe_file.
TranscribeFile ==
    /\ cpc = "idle"
    /\ ~(file_size_mb > MAX_FILE_SIZE_MB)
    /\ \E result \in EngineResults(total_duration_ms) :
         /\ engine_calls' = Append(engine_calls,
                [sent |-> "file", from |-> 0, to |-> total_duration_ms,
                 result |-> result])
         /\ all_segments' = AdjustAll(result.segments, 0, 0)
         /\ full_text' = <<result.text>>
    /\ cpc' = "done"
    /\ UNCHANGED <<captions, lookups, total_duration_ms, file_size_mb, chunks,
                   start, full_text_parts,
                   result_segments, processed_by, db_segments>>

\* One iteration of `while start < total_duration_ms`.
SplitStep ==
    /\ cpc = "split"
    /\ start < total_duration_ms
    /\ LET end == ChunkEnd(start,
                           ChunkDurationMs(file_size_mb, total_duration_ms),
                           total_duration_ms)
       IN /\ chunks' = Append(chunks, <<start, end>>)
          /\ start' = end
    /\ UNCHANGED <<captions, lookups, total_duration_ms, file_size_mb, cpc,
                   all_segments, full_text_parts, full_text, engine_calls,
                   result_segments, processed_by, db_segments>>

\* The while loop ends; the for loop over the chunks begins.
SplitDone ==
    /\ cpc = "split"
    /\ ~(start < total_duration_ms)
    /\ cpc' = "chunks"
    /\ UNCHANGED <<captions, lookups, total_duration_ms, file_size_mb, chunks,
                   start, all_segments, full_text_parts, full_text, engine_calls,
                   result_segments, processed_by, db_segments>>

\* One iteration of the for loop: the chunk is exported and transcribed,
\* its segments adjusted and appended, its text appended.
TranscribeChunk ==
    /\ cpc = "chunks"
    /\ Len(full_text_parts) < Len(chunks)
    /\ LET i == Len(full_text_parts) + 1
           start_ms == chunks[i][1]
           end_ms == chunks[i][2]
       IN \E result \in EngineResults(end_ms - start_ms) :
            /\ engine_calls' = Append(engine_calls,
                   [sent |-> "chunk", from |-> start_ms, to |-> end_ms,
                    result |-> result])
            /\ all_segments' =
                   all_segments \o AdjustAll(result.segments, i, start_ms)
            /\ full_text_parts' = Append(full_text_parts, result.text)
    /\ UNCHANGED <<captions, lookups, total_duration_ms, file_size_mb, cpc,
                   chunks, start, full_text,
                   result_segments, processed_by, db_segments>>

\* The for loop ends; transcribe_large_file returns the joined text and the
\* segments.
ReturnMerged ==
    /\ cpc = "chunks"
    /\ ~(Len(full_text_parts) < Len(chunks))
    /\ full_text' = Join(full_text_parts)
    /\ cpc' = "done"
    /\ UNCHANGED <<captions, lookups, total_duration_ms, file_size_mb, chunks,
                   start, all_segments, full_text_parts, engine_calls,
                   result_segments, processed_by, db_segments>>

(***************************************************************************)
(* MeetingScheduler: check_upcoming_meetings and schedule_bot_join, with   *)
(* the orchestrator taking the join jobs and the meetings ending.          *)
(***************************************************************************)

\* The statuses of a meeting that has ended.
Terminal == {"completed", "failed", "cancelled"}

\* The calendar events inside the join window.
CalendarEvents == {"e1", "e2"}

\* The call of schedule_bot_join that raised: the query of the user's
\* settings, the insert of the meeting, or the push of the job; "none" when
\* every call the function reached returned.
SchedErrors == {"none", "user", "insert", "push"}

\* A buggy variant of the lookup: only the meetings that have not ended
\* count.
ExistingNotEnded(table, event_id) ==
    {i \in DOMAIN table[event_id] : table[event_id][i] \notin Terminal}

\* meetings.select('id').eq('calendar_event_id', event_id): the meeting
\* records of the event, whatever their status.
Existing(table, event_id) == DOMAIN table[event_id]

\* The join jobs of the event's meetings that are in the queue.
JobsOf(queue, event_id) ==
    {j \in DOMAIN queue : queue[j][1] = event_id}

\* No meeting, no job, no call.
SchedInit ==
    /\ meetings_table = [e \in CalendarEvents |-> <<>>]
    /\ join_queue = <<>>
    /\ sched_log = <<>>

\* check_upcoming_meetings, one iteration of its loop: schedule_bot_join
\* for an event of the join window.
ScheduleBotJoin ==
    /\ Len(sched_log) < MaxTicks
    /\ \E event_id \in CalendarEvents, err \in SchedErrors :
         LET existing == Existing(meetings_table, event_id)
             created == existing = {} /\ err \notin {"user", "insert"}
             queued == created /\ err # "push"
             meeting_id == <<event_id, Len(meetings_table[event_id]) + 1>>
         IN
         /\ existing # {} => err = "none"
         /\ meetings_table' =
              IF created
              THEN [meetings_table EXCEPT ![event_id] = Append(@, "scheduled")]
              ELSE meetings_table
         /\ join_queue' = IF queued THEN Append(join_queue, meeting_id)
                          ELSE join_queue
         /\ sched_log' = Append(sched_log,
              [event |-> event_id,
               had |-> Len(meetings_table[event_id]),
               live |-> Cardinality(ExistingNotEnded(meetings_table, event_id)),
               err |-> err, created |-> created, queued |-> queued])

\* The orchestrator takes the first join job of the queue and writes the
\* status "joining" for its meeting.
TakeJoinJob ==
    /\ join_queue # <<>>
    /\ LET job == Head(join_queue) IN
         meetings_table' =
            [meetings_table EXCEPT ![job[1]][job[2]] = "joining"]
    /\ join_queue' = Tail(join_queue)
    /\ UNCHANGED sched_log

\* A meeting a bot was sent to ends: the worker or the orchestrator writes
\* "completed" or "failed".
MeetingEnds ==
    /\ \E e \in CalendarEvents, i \in 1..MaxTicks, st \in {"completed", "failed"} :
         /\ i \in DOMAIN meetings_table[e]
         /\ meetings_table[e][i] = "joining"
         /\ meetings_table' = [meetings_table EXCEPT ![e][i] = st]
    /\ UNCHANGED <<join_queue, sched_log>>

\* main() at its call of join_meeting, the recording not started early:
\* the status "joining" has been written and the browser is up.
MainAtJoin ==
    /\ wpc = "join"
    /\ early = FALSE
    /\ has_key \in BOOLEAN
    /\ joined = FALSE
    /\ w_recording_path = "none"
    /\ is_uploaded = FALSE
    /\ transcription_path = FALSE
    /\ exit_code = EXIT_SUCCESS
    /\ shutdown_requested = FALSE
    /\ monitor_ticks = 0
    /\ meeting_ended = FALSE
    /\ failure = "none"
    /\ uploaded = {}
    /\ upload_failures = {}
    /\ file_at_cleanup = "unknown"

DbJoining ==
    /\ mstatus = "joining"
    /\ last_write = [by |-> "worker", old |-> "scheduled", new |-> "joining"]
    /\ tq = 0

\* A Recorder that is constructed and never started.
RecIdle == RecInit /\ other_file = "none"

\* join_meeting alone: the steps of one call.
JoinNext ==
    \/ AttemptBegin /\ UNCHANGED <<recVars, mainVars, dbVars, orchVars, capVars, txVars, scrapeVars, schedVars>>
    \/ PreJoinCheck /\ UNCHANGED <<recVars, mainVars, dbVars, orchVars, capVars, txVars, scrapeVars, schedVars>>
    \/ PollTick /\ UNCHANGED <<recVars, mainVars, dbVars, orchVars, capVars, txVars, scrapeVars, schedVars>>
    \/ PollTimeout /\ UNCHANGED <<recVars, mainVars, dbVars, orchVars, capVars, txVars, scrapeVars, schedVars>>
    \/ Backoff /\ UNCHANGED <<recVars, mainVars, dbVars, orchVars, capVars, txVars, scrapeVars, schedVars>>
    \/ Reload /\ UNCHANGED <<recVars, mainVars, dbVars, orchVars, capVars, txVars, scrapeVars, schedVars>>

InitJoin == JoinInit /\ RecIdle /\ MainIdle /\ DbInit /\ OrchInit /\ CapInit /\ TxIdle /\ ScrapeIdle /\ SchedInit

SpecJoin == InitJoin /\ [][JoinNext]_vars

\* join_meeting inside a worker that can be sent SIGINT or SIGTERM.
JoinShutdownNext ==
    \/ AttemptBegin /\ UNCHANGED <<recVars, mainVars, dbVars, orchVars, capVars, txVars, scrapeVars, schedVars>>
    \/ PreJoinCheck /\ UNCHANGED <<recVars, mainVars, dbVars, orchVars, capVars, txVars, scrapeVars, schedVars>>
    \/ PollTick /\ UNCHANGED <<recVars, mainVars, dbVars, orchVars, capVars, txVars, scrapeVars, schedVars>>
    \/ PollTimeout /\ UNCHANGED <<recVars, mainVars, dbVars, orchVars, capVars, txVars, scrapeVars, schedVars>>
    \/ Backoff /\ UNCHANGED <<recVars, mainVars, dbVars, orchVars, capVars, txVars, scrapeVars, schedVars>>
    \/ Reload /\ UNCHANGED <<recVars, mainVars, dbVars, orchVars, capVars, txVars, scrapeVars, schedVars>>
    \/ ShutdownSignal /\ UNCHANGED <<joinVars, orchVars, capVars, txVars, scrapeVars, schedVars>>

InitJoinShutdown == JoinInit /\ RecIdle /\ MainAtJoin /\ DbJoining /\ OrchInit /\ CapInit /\ TxIdle /\ ScrapeIdle /\ SchedInit

SpecJoinShutdown == InitJoinShutdown /\ [][JoinShutdownNext]_vars

\* One Recorder, its capture process and the shared recording directory.
RecNext ==
    \/ RecStart /\ UNCHANGED <<joinVars, mainVars, dbVars, orchVars, capVars, txVars, scrapeVars, schedVars>>
    \/ RecStartCheck /\ UNCHANGED <<joinVars, mainVars, dbVars, orchVars, capVars, txVars, scrapeVars, schedVars>>
    \/ FfmpegWrite /\ UNCHANGED <<joinVars, mainVars, dbVars, orchVars, capVars, txVars, scrapeVars, schedVars>>
    \/ FfmpegExit /\ UNCHANGED <<joinVars, mainVars, dbVars, orchVars, capVars, txVars, scrapeVars, schedVars>>
    \/ OtherWorkerWrites /\ UNCHANGED <<joinVars, mainVars, dbVars, orchVars, capVars, txVars, scrapeVars, schedVars>>
    \/ RecStop /\ UNCHANGED <<joinVars, mainVars, dbVars, orchVars, capVars, txVars, scrapeVars, schedVars>>

InitRecorder == JoinIdle /\ RecInit /\ MainIdle /\ DbInit /\ OrchInit /\ CapInit /\ TxIdle /\ ScrapeIdle /\ SchedInit

SpecRecorder == InitRecorder /\ [][RecNext]_vars

\* One worker process from the start of main() to its exit, its capture
\* process, and the other writers of its meeting record.
WorkerNext ==
    \/ WStart /\ UNCHANGED <<joinVars, orchVars, capVars, txVars, scrapeVars, schedVars>>
    \/ WStartRecording /\ UNCHANGED <<joinVars, orchVars, capVars, txVars, scrapeVars, schedVars>>
    \/ WStartRecordingCheck /\ UNCHANGED <<joinVars, orchVars, capVars, txVars, scrapeVars, schedVars>>
    \/ WJoin /\ UNCHANGED <<joinVars, orchVars, capVars, txVars, scrapeVars, schedVars>>
    \/ WEarlyStop /\ UNCHANGED <<joinVars, orchVars, capVars, txVars, scrapeVars, schedVars>>
    \/ WJoinFailed /\ UNCHANGED <<joinVars, orchVars, capVars, txVars, scrapeVars, schedVars>>
    \/ WStatusRecording /\ UNCHANGED <<joinVars, orchVars, capVars, txVars, scrapeVars, schedVars>>
    \/ WMonitorTick /\ UNCHANGED <<joinVars, orchVars, capVars, txVars, scrapeVars, schedVars>>
    \/ WStop /\ UNCHANGED <<joinVars, orchVars, capVars, txVars, scrapeVars, schedVars>>
    \/ WRecordingFailed /\ UNCHANGED <<joinVars, orchVars, capVars, txVars, scrapeVars, schedVars>>
    \/ WStatusProcessing /\ UNCHANGED <<joinVars, orchVars, capVars, txVars, scrapeVars, schedVars>>
    \/ WUpload /\ UNCHANGED <<joinVars, orchVars, capVars, txVars, scrapeVars, schedVars>>
    \/ WUploadFailed /\ UNCHANGED <<joinVars, orchVars, capVars, txVars, scrapeVars, schedVars>>
    \/ WStatusTranscribing /\ UNCHANGED <<joinVars, orchVars, capVars, txVars, scrapeVars, schedVars>>
    \/ WTranscribe /\ UNCHANGED <<joinVars, orchVars, capVars, txVars, scrapeVars, schedVars>>
    \/ WRecord /\ UNCHANGED <<joinVars, orchVars, capVars, txVars, scrapeVars, schedVars>>
    \/ WStatusCompleted /\ UNCHANGED <<joinVars, orchVars, capVars, txVars, scrapeVars, schedVars>>
    \/ WExcept /\ UNCHANGED <<joinVars, orchVars, capVars, txVars, scrapeVars, schedVars>>
    \/ WFinallyStop /\ UNCHANGED <<joinVars, orchVars, capVars, txVars, scrapeVars, schedVars>>
    \/ WEmergencyUpload /\ UNCHANGED <<joinVars, orchVars, capVars, txVars, scrapeVars, schedVars>>
    \/ WCleanup /\ UNCHANGED <<joinVars, orchVars, capVars, txVars, scrapeVars, schedVars>>
    \/ ShutdownSignal /\ UNCHANGED <<joinVars, orchVars, capVars, txVars, scrapeVars, schedVars>>
    \/ FfmpegWrite /\ UNCHANGED <<joinVars, mainVars, dbVars, orchVars, capVars, txVars, scrapeVars, schedVars>>
    \/ FfmpegExit /\ UNCHANGED <<joinVars, mainVars, dbVars, orchVars, capVars, txVars, scrapeVars, schedVars>>
    \/ TranscriptionProcessJob /\ UNCHANGED <<joinVars, orchVars, capVars, txVars, scrapeVars, schedVars>>
    \/ ApiCancel /\ UNCHANGED <<joinVars, orchVars, capVars, txVars, scrapeVars, schedVars>>
    \/ ApiRetry /\ UNCHANGED <<joinVars, orchVars, capVars, txVars, scrapeVars, schedVars>>
    \/ WCaption /\ UNCHANGED <<joinVars, recVars, mainVars, dbVars, orchVars, capVars, txVars, schedVars>>

InitWorker == JoinIdle /\ RecInit /\ MainInit /\ DbInit /\ OrchInit /\ CapInit /\ TxIdle /\ ScrapeIdle /\ SchedInit

SpecWorker == InitWorker /\ [][WorkerNext]_vars

\* The orchestrator's loop and the producers of its queue.
OrchNext ==
    \/ EnqueueJoinJob /\ UNCHANGED <<joinVars, recVars, mainVars, capVars, txVars, scrapeVars, schedVars>>
    \/ ProcessJob /\ UNCHANGED <<joinVars, recVars, mainVars, capVars, txVars, scrapeVars, schedVars>>

InitOrch == JoinIdle /\ RecIdle /\ MainIdle /\ DbInit /\ OrchInit /\ CapInit /\ TxIdle /\ ScrapeIdle /\ SchedInit

SpecOrch == InitOrch /\ [][OrchNext]_vars

\* The ContainerManager, called according to its signatures, and the
\* Docker daemon it talks to.
ContainersNext ==
    \/ SpawnBotCall /\ UNCHANGED <<joinVars, recVars, mainVars, dbVars, capVars, txVars, scrapeVars, schedVars>>
    \/ StopBot /\ UNCHANGED <<joinVars, recVars, mainVars, dbVars, capVars, txVars, scrapeVars, schedVars>>
    \/ CleanupDeadContainers /\ UNCHANGED <<joinVars, recVars, mainVars, dbVars, capVars, txVars, scrapeVars, schedVars>>
    \/ WorkerExits /\ UNCHANGED <<joinVars, recVars, mainVars, dbVars, capVars, txVars, scrapeVars, schedVars>>
    \/ AutoRemove /\ UNCHANGED <<joinVars, recVars, mainVars, dbVars, capVars, txVars, scrapeVars, schedVars>>

InitContainers == JoinIdle /\ RecIdle /\ MainIdle /\ DbInit /\ OrchInit /\ CapInit /\ TxIdle /\ ScrapeIdle /\ SchedInit

SpecContainers == InitContainers /\ [][ContainersNext]_vars

\* One CaptionScraper from its construction on.
CaptionsNext ==
    \/ StartScraping /\ UNCHANGED <<joinVars, recVars, mainVars, dbVars, orchVars, txVars, scrapeVars, schedVars>>
    \/ HandleCaption /\ UNCHANGED <<joinVars, recVars, mainVars, dbVars, orchVars, txVars, scrapeVars, schedVars>>
    \/ StopScraping /\ UNCHANGED <<joinVars, recVars, mainVars, dbVars, orchVars, txVars, scrapeVars, schedVars>>

InitCaptions == JoinIdle /\ RecIdle /\ MainIdle /\ DbInit /\ OrchInit /\ CapInit /\ TxIdle /\ ScrapeIdle /\ SchedInit

SpecCaptions == InitCaptions /\ [][CaptionsNext]_vars

\* The lookups of speakers in one caption log.
AttributionNext ==
    \/ AttributorLookup /\ UNCHANGED <<joinVars, recVars, mainVars, dbVars, orchVars, capVars, scrapeVars, schedVars>>
    \/ TranscriberLookup /\ UNCHANGED <<joinVars, recVars, mainVars, dbVars, orchVars, capVars, scrapeVars, schedVars>>

InitAttribution == JoinIdle /\ RecIdle /\ MainIdle /\ DbInit /\ OrchInit /\ CapInit /\ AttributionInit /\ ChunkerIdle /\ SegmentsIdle /\ ScrapeIdle /\ SchedInit

SpecAttribution == InitAttribution /\ [][AttributionNext]_vars

\* The transcription of one file.
ChunkerNext ==
    \/ TranscribeLarge /\ UNCHANGED <<joinVars, recVars, mainVars, dbVars, orchVars, capVars, scrapeVars, schedVars>>
    \/ TranscribeFile /\ UNCHANGED <<joinVars, recVars, mainVars, dbVars, orchVars, capVars, scrapeVars, schedVars>>
    \/ SplitStep /\ UNCHANGED <<joinVars, recVars, mainVars, dbVars, orchVars, capVars, scrapeVars, schedVars>>
    \/ SplitDone /\ UNCHANGED <<joinVars, recVars, mainVars, dbVars, orchVars, capVars, scrapeVars, schedVars>>
    \/ TranscribeChunk /\ UNCHANGED <<joinVars, recVars, mainVars, dbVars, orchVars, capVars, scrapeVars, schedVars>>
    \/ ReturnMerged /\ UNCHANGED <<joinVars, recVars, mainVars, dbVars, orchVars, capVars, scrapeVars, schedVars>>

InitChunker == JoinIdle /\ RecIdle /\ MainIdle /\ DbInit /\ OrchInit /\ CapInit /\ AttributionIdle /\ ChunkerInit /\ SegmentsIdle /\ ScrapeIdle /\ SchedInit

SpecChunker == InitChunker /\ [][ChunkerNext]_vars

\* The processing of one transcription result.
SegmentsNext ==
    \/ ProcessSegments /\ UNCHANGED <<joinVars, recVars, mainVars, dbVars, orchVars, capVars, scrapeVars, schedVars>>
    \/ ApiProcessSegments /\ UNCHANGED <<joinVars, recVars, mainVars, dbVars, orchVars, capVars, scrapeVars, schedVars>>

InitSegments == JoinIdle /\ RecIdle /\ MainIdle /\ DbInit /\ OrchInit /\ CapInit /\ AttributionIdle /\ ChunkerIdle /\ SegmentsInit /\ ScrapeIdle /\ SchedInit

SpecSegments == InitSegments /\ [][SegmentsNext]_vars

\* The scheduler's loop over the events of the join window, the
\* orchestrator and the workers.
SchedulerNext ==
    \/ ScheduleBotJoin /\ UNCHANGED <<joinVars, recVars, mainVars, dbVars, orchVars, capVars, txVars, scrapeVars>>
    \/ TakeJoinJob /\ UNCHANGED <<joinVars, recVars, mainVars, dbVars, orchVars, capVars, txVars, scrapeVars>>
    \/ MeetingEnds /\ UNCHANGED <<joinVars, recVars, mainVars, dbVars, orchVars, capVars, txVars, scrapeVars>>

InitScheduler == JoinIdle /\ RecIdle /\ MainIdle /\ DbInit /\ OrchInit /\ CapInit /\ TxIdle /\ ScrapeIdle /\ SchedInit

SpecScheduler == InitScheduler /\ [][SchedulerNext]_vars

(***************************************************************************)
(* Claims about join_meeting (checked under SpecJoin).                     *)
(***************************************************************************)

Transient == {"timeout", "error"}

\* C1: when attempt k detects an access-denied, meeting-ended or
\* sign-in-required marker in its pre-join check, join_meeting has returned
\* False after exactly k attempts: k-1 backoff sleeps and k-1 reloads or
\* re-navigations happened before it, none after it, and no attempt k+1.
C1_PermanentPreJoinStops ==
    \A k \in 1..Len(outcomes) :
        outcomes[k] = "permanent" =>
            /\ k = Len(outcomes)
            /\ jpc = "returned"
            /\ joinResult = "false"
            /\ attempts = k
            /\ Len(delays) = k - 1
            /\ reloads + navs = k - 1

\* C1 witness: attempt 1 timed out, attempt 2 saw a permanent marker, and
\* join_meeting returned after 2 of 3 attempts.
C1_Witness ==
    /\ max_join_retries = 3
    /\ outcomes = <<"timeout", "permanent">>
    /\ jpc = "returned"
    /\ attempts = 2

\* C2: a permanent-failure marker detected on a tick of the admission poll
\* aborts the remaining retries: no attempt follows the attempt in which the
\* marker was detected.
C2_PollFailureStops ==
    \A k \in 1..Len(outcomes) :
        outcomes[k] = "join_failed" => attempts = k

\* C9: join_meeting makes at most MAX_JOIN_RETRIES attempts, and once it has
\* ended with every attempt failed transiently it has returned False after
\* exactly MAX_JOIN_RETRIES attempts, with one reload or re-navigation
\* between consecutive attempts and none after the last.
C9_TransientExhaustsAttempts ==
    /\ attempts <= max_join_retries
    /\ (/\ jpc \in {"returned", "raised"}
        /\ \A k \in 1..Len(outcomes) : outcomes[k] \in Transient)
       => /\ jpc = "returned"
          /\ joinResult = "false"
          /\ attempts = max_join_retries
          /\ reloads + navs = max_join_retries - 1

RECURSIVE Pow2(_)
Pow2(n) == IF n = 0 THEN 1 ELSE 2 * Pow2(n - 1)

\* C10: the delay slept before attempt k+1 is
\* min(INITIAL_RETRY_DELAY * 2^(k-1), MAX_RETRY_DELAY); the delays are
\* non-decreasing in k and never exceed MAX_RETRY_DELAY.
C10_BackoffDelays ==
    \A k \in 1..Len(delays) :
        /\ LET raw == INITIAL_RETRY_DELAY * Pow2(k - 1) IN
             delays[k] = IF raw <= MAX_RETRY_DELAY THEN raw ELSE MAX_RETRY_DELAY
        /\ delays[k] <= MAX_RETRY_DELAY
        /\ k > 1 => delays[k - 1] <= delays[k]

\* C10 witness: four delays were slept and the fourth was capped.
C10_Witness ==
    /\ Len(delays) = 4
    /\ delays[3] < MAX_RETRY_DELAY
    /\ delays[4] = MAX_RETRY_DELAY
    /\ INITIAL_RETRY_DELAY * Pow2(3) > MAX_RETRY_DELAY

(***************************************************************************)
(* Claims about Recorder (checked under SpecRecorder).                     *)
(***************************************************************************)

\* C4: stop() is idempotent: of two stop() calls with no start() between
\* them, when the first returned (the expected file, a file found by the
\* directory scan, or None), the second returns the same and does not raise.
C4_StopIdempotent ==
    \A i \in 1..(Len(stop_results) - 1) :
        stop_results[i] # "raise" => stop_results[i + 1] = stop_results[i]

\* C11: the signals stop() sends to a live capture process escalate from
\* the graceful quit over terminate to kill: a kill is sent only to a
\* process that was sent a terminate before.
C11_KillOnlyAfterTerminate ==
    \A i \in DOMAIN signals :
        signals[i] = "SIGKILL" => \E j \in 1..(i - 1) : signals[j] = "SIGTERM"

\* C12: a stop() that finds the capture process of a recording in progress
\* already exited sends it no signal, and returns the expected path, without
\* raising, when the file there is not empty.
C12_DeadProcessStop ==
    \A i \in DOMAIN stop_calls :
        (stop_calls[i].rec /\ stop_calls[i].proc = "exited") =>
            /\ stop_calls[i].sent = <<>>
            /\ stop_calls[i].file = "nonempty" => stop_results[i] = "expected"

\* The process died while recording and stop() returned its file.
C12_Witness ==
    /\ stop_calls # <<>>
    /\ stop_calls[1].rec
    /\ stop_calls[1].proc = "exited"
    /\ stop_calls[1].file = "nonempty"
    /\ stop_results[1] = "expected"
    /\ signals = <<>>

(***************************************************************************)
(* Claims about the worker's main() (checked under SpecWorker).            *)
(***************************************************************************)

\* C3: whatever branch main() left by, when the recording file of this run
\* was on disk with nonzero size as the cleanup path ran, then by the time
\* the process exits an upload of it has succeeded or an upload failure for
\* it has been logged.
C3_FileNeverDropped ==
    (wpc = "exited" /\ file_at_cleanup = "nonempty")
        => "expected" \in (uploaded \cup upload_failures)

StatusRank(st) ==
    IF st = "scheduled" THEN 0
    ELSE IF st = "joining" THEN 1
    ELSE IF st = "recording" THEN 2
    ELSE IF st = "processing" THEN 3
    ELSE IF st = "transcribing" THEN 4
    ELSE 5

\* C7: a status write by the orchestrator, the worker or the transcription
\* consumer never moves the meeting back to an earlier state: a job that
\* finds the meeting already past the state it expects leaves the status
\* as it is.
C7_NoBackwardWrite ==
    last_write.by \in {"orchestrator", "worker", "consumer"}
        => StatusRank(last_write.new) >= StatusRank(last_write.old)

\* C8: completed, failed and cancelled are terminal: a write by the
\* orchestrator, the worker or the transcription consumer to a meeting in
\* one of them leaves the status unchanged.
C8_TerminalStays ==
    (last_write.by \in {"orchestrator", "worker", "consumer"}
        /\ last_write.old \in Terminal)
        => last_write.new = last_write.old

(***************************************************************************)
(* Claims about the orchestrator (SpecOrch) and the ContainerManager       *)
(* (SpecContainers).                                                       *)
(***************************************************************************)

\* C5: every job the orchestrator loop dequeued caused exactly one write of
\* the meeting status: joining when spawn_bot returned a handle, failed in
\* every other outcome (None, an exception, incomplete job data).
C5_OneWritePerJob ==
    \A i \in DOMAIN job_log :
        job_log[i].writes =
            IF job_log[i].outcome = "handle" THEN <<"joining">> ELSE <<"failed">>

LiveWorkers(meeting_id) ==
    {c \in containers : c.meeting = meeting_id /\ c.state = "running"}

\* C6: in every reachable state a meeting id has at most one live worker,
\* whatever sequence of spawn requests (duplicates, retries while an
\* earlier worker is still exiting) was made.
C6_OneLiveWorker ==
    \A m \in Meetings : Cardinality(LiveWorkers(m)) <= 1

\* A second spawn for a meeting whose worker is alive was refused.
C6_Witness ==
    /\ last_spawn.meeting \in Meetings
    /\ last_spawn.taken
    /\ last_spawn.result = "none"
    /\ Cardinality(LiveWorkers(last_spawn.meeting)) = 1

\* C13: a tick of the monitoring loop that finds the shutdown flag set
\* leaves the loop for the stop of the recording without looking at the end
\* of the meeting or the maximum duration (bot.meeting_ended stays unset),
\* and the worker's next step is stop_recording.
C13_ShutdownLeavesMonitor ==
    [][/\ (wpc = "monitor" /\ shutdown_requested
             /\ monitor_ticks' # monitor_ticks)
          => (wpc' = "stop" /\ ~meeting_ended')
       /\ (wpc = "stop" /\ wpc' # "stop")
          => Len(stop_calls') = Len(stop_calls) + 1]_vars

\* The loop was left because of the flag and the recording was stopped.
C13_Witness ==
    /\ wpc = "status_processing"
    /\ shutdown_requested
    /\ ~meeting_ended
    /\ monitor_ticks >= 1

(***************************************************************************)
(* Claims about a shutdown during the join (SpecJoinShutdown).             *)
(***************************************************************************)

\* C14: a shutdown signal that arrives while join_meeting waits (in the
\* admission poll or in a retry backoff) is honoured: after the flag is
\* set, join_meeting starts no further attempt and sleeps no further
\* backoff.
C14_ShutdownStopsJoin ==
    [][shutdown_requested =>
          (attempts' = attempts /\ Len(delays') = Len(delays))]_vars

(***************************************************************************)
(* More claims about the worker's main() (SpecWorker).                     *)
(***************************************************************************)

ExitCodeFor(kind) ==
    IF kind = "none" THEN EXIT_SUCCESS
    ELSE IF kind = "join" THEN EXIT_JOIN_FAILED
    ELSE IF kind = "recording" THEN EXIT_RECORDING_ERROR
    ELSE IF kind = "upload" THEN EXIT_UPLOAD_ERROR
    ELSE EXIT_ERROR

\* C15: the worker exits with 0 on success, 2 when the join failed, 4 on a
\* recording error (the capture process exits at once at start, or there
\* is no non-empty file after stop), 5 on an upload error and 1 on any other
\* error; the first terminal failure fixes the code.
C15_ExitCodes ==
    wpc = "exited" => exit_code = ExitCodeFor(failure)

\* C17: when the worker's own transcription of the uploaded recording
\* fails, the meeting ends with status failed: a worker that had an API key
\* and got no transcription does not write completed.
C17_TranscriptionFailureFails ==
    (last_write.by = "worker" /\ last_write.new = "completed")
        => ~(has_key /\ ~transcription_path)

(***************************************************************************)
(* More claims about the orchestrator (SpecOrch).                          *)
(***************************************************************************)

\* C16: a job that ends in a terminal failure leaves the meeting with
\* status failed and a non-empty error_message, written together.  For the
\* orchestrator: every dequeued job that did not yield a worker has failed
\* as its last status write, with an error_message.
C16_FailureHasMessage ==
    \A i \in DOMAIN job_log :
        job_log[i].outcome # "handle" =>
            /\ job_log[i].writes # <<>>
            /\ Last(job_log[i].writes) = "failed"
            /\ job_log[i].error_message # "none"

\* get_segments: a copy of the closed list followed by the open segments in
\* the order of the dict.
GetSegments == segments \o active_segments

(***************************************************************************)
(* Claims about the caption scraper                                        *)
(***************************************************************************)

\* The open segments of a speaker.
OpenOf(speaker) ==
    {i \in DOMAIN active_segments : active_segments[i].speaker = speaker}

\* The last two caption events are from the same speaker and the text of
\* the second starts with the text of the first, the scraper still running.
GrowingPair ==
    /\ is_scraping
    /\ Len(events) >= 2
    /\ events[Len(events)].speaker = events[Len(events) - 1].speaker
    /\ StartsWith(events[Len(events)].text, events[Len(events) - 1].text)

\* C18 as stated: after two consecutive caption events from the same
\* speaker, the second text extending the first, the scraper holds exactly
\* one segment for both, with the second text, the time of the first event
\* as start_ms and the time of the second as end_ms, and the closed list is
\* as long as it was after the first event.
C18_AnyGrowingPairCoalesced ==
    GrowingPair =>
        LET e1 == events[Len(events) - 1]
            e2 == events[Len(events)]
        IN
        /\ Cardinality(OpenOf(e2.speaker)) = 1
        /\ \A i \in OpenOf(e2.speaker) :
             /\ active_segments[i].text = e2.text
             /\ active_segments[i].start_ms = e1.t
             /\ active_segments[i].end_ms = e2.t
        /\ e2.closed = e1.closed

\* C18 amended: the same, for a speaker whose captions are not skipped as
\* the bot's own and a first event that began the speaker's segment (as a
\* first caption of the speaker or after a text that did not grow).
C18_GrowingPairCoalesced ==
    (/\ GrowingPair
     /\ ~IsOwnCaption(events[Len(events)].speaker)
     /\ events[Len(events) - 1].kind \in {"opened", "replaced"}) =>
        LET e1 == events[Len(events) - 1]
            e2 == events[Len(events)]
        IN
        /\ Cardinality(OpenOf(e2.speaker)) = 1
        /\ \A i \in OpenOf(e2.speaker) :
             /\ active_segments[i].text = e2.text
             /\ active_segments[i].start_ms = e1.t
             /\ active_segments[i].end_ms = e2.t
        /\ e2.closed = e1.closed

\* Two events of a speaker a second and a half apart, the second text
\* longer and starting with the first, held as one open segment.
C18_Witness ==
    /\ GrowingPair
    /\ ~IsOwnCaption(events[Len(events)].speaker)
    /\ events[Len(events) - 1].kind \in {"opened", "replaced"}
    /\ Len(events[Len(events)].text) > Len(events[Len(events) - 1].text)
    /\ events[Len(events)].t > events[Len(events) - 1].t
    /\ events[Len(events)].kind = "extended"

\* C19: the scraper has at most one open caption segment at any time.
C19_OneOpenSegment == Len(active_segments) <= 1

\* C20: arrival times never decreasing, every open and every closed caption
\* segment has start_ms <= end_ms.
C20_StartBeforeEnd ==
    /\ \A i \in DOMAIN segments : segments[i].start_ms <= segments[i].end_ms
    /\ \A i \in DOMAIN active_segments :
         active_segments[i].start_ms <= active_segments[i].end_ms

\* A closed segment and an open one, the open one extended by an event that
\* arrived at the time of the event that opened it.
C20_Witness ==
    /\ segments # <<>>
    /\ \E i \in DOMAIN active_segments :
         active_segments[i].start_ms = active_segments[i].end_ms
    /\ events[Len(events)].kind = "extended"

\* The caption events that opened a segment for the speaker at time t.
OpenedAt(log, speaker, t) ==
    {j \in DOMAIN log : /\ log[j].kind \in {"opened", "replaced"}
                        /\ log[j].speaker = speaker
                        /\ log[j].t = t}

\* The segments of a list that belong to the speaker and start at time t.
StartedAt(list, speaker, t) ==
    {i \in DOMAIN list : list[i].speaker = speaker /\ list[i].start_ms = t}

\* The speakers and start times that occur in a log of events or in a list
\* of segments.
StartKeys(log, list) ==
    {<<log[j].speaker, log[j].t>> : j \in DOMAIN log}
        \cup {<<list[i].speaker, list[i].start_ms>> : i \in DOMAIN list}

\* C21: when stop_scraping returns no segment is open and the closed list
\* holds every segment opened since start_scraping exactly once (as many
\* segments of a speaker and a start time as events opened one); and no
\* step, a later caption event included, changes a segment of the closed
\* list.
C21_FlushKeepsAll ==
    [][/\ (is_scraping /\ ~is_scraping') =>
            /\ active_segments' = <<>>
            /\ \A k \in StartKeys(events', segments') :
                 Cardinality(StartedAt(segments', k[1], k[2]))
                     = Cardinality(OpenedAt(events', k[1], k[2]))
       /\ start_time = "set" =>
            \A i \in DOMAIN segments :
                i \in DOMAIN segments' /\ segments'[i] = segments[i]]_vars

\* The scraper was stopped with two closed segments, one of them closed by
\* a text that did not grow, and a caption event arrived after the stop.
C21_Witness ==
    /\ ~is_scraping
    /\ start_time = "set"
    /\ Len(segments) >= 2
    /\ \E j \in DOMAIN events : events[j].kind = "replaced"
    /\ active_segments # <<>>

(***************************************************************************)
(* Claims about the speaker attribution                                    *)
(***************************************************************************)

Containing(caps, timestamp_ms) ==
    {k \in DOMAIN caps :
        caps[k].start_ms <= timestamp_ms /\ timestamp_ms <= caps[k].end_ms}

\* The segments of a list at the least distance to a timestamp.
Closest(caps, timestamp_ms) ==
    {k \in DOMAIN caps :
        \A m \in DOMAIN caps :
            Distance(caps[k], timestamp_ms) <= Distance(caps[m], timestamp_ms)}

\* C23: get_speaker_at_time returns the speaker of a segment that contains
\* the timestamp when there is one; else, when the least distance of a
\* segment to the timestamp is at most 5000 ms, the speaker of a segment at
\* that distance.
C23_ClosestWithinTolerance ==
    \A i \in DOMAIN lookups :
        LET caps == lookups[i].caps
            T == lookups[i].t
        IN
        /\ Containing(caps, T) # {} =>
             \E k \in Containing(caps, T) : lookups[i].speaker = caps[k].speaker
        /\ (/\ Containing(caps, T) = {}
            /\ \E k \in DOMAIN caps : Distance(caps[k], T) <= TIME_TOLERANCE_MS)
             => \E k \in Closest(caps, T) : lookups[i].speaker = caps[k].speaker

\* C24: the speaker returned, if any, is the speaker of a segment that
\* neither ended more than 5000 ms before the timestamp nor starts more than
\* 5000 ms after it.
C24_NothingBeyondTolerance ==
    \A i \in DOMAIN lookups :
        lookups[i].speaker # NoSpeaker =>
            \E k \in DOMAIN lookups[i].caps :
                /\ lookups[i].caps[k].speaker = lookups[i].speaker
                /\ lookups[i].t - lookups[i].caps[k].end_ms <= TIME_TOLERANCE_MS
                /\ lookups[i].caps[k].start_ms - lookups[i].t <= TIME_TOLERANCE_MS

(***************************************************************************)
(* Claims about the audio chunker                                          *)
(***************************************************************************)

\* The file is above the ceiling and the chunker has begun.
Chunking == file_size_mb > MAX_FILE_SIZE_MB /\ cpc # "idle"

\* The length of the k-th window.
WindowMs(k) == chunks[k][2] - chunks[k][1]

\* max(floor(20 MB / bytes_per_ms), 60000) for the file.
FullWindowMs ==
    Max((TARGET_CHUNK_MB * total_duration_ms) \div file_size_mb, MIN_CHUNK_MS)

\* C25: the windows built by transcribe_large_file are non-empty, start at
\* 0, each begins where the one before ends, all but the last have the
\* length max(floor(20 MB / bytes_per_ms), 60000) and the last is no
\* longer; the loop variable is the end of the last window and never beyond
\* the audio, so the loop ends after at most ceil(total / length) windows,
\* and after the loop the last window ends at total_duration_ms.
C25_WindowsPartition ==
    Chunking =>
        /\ \A k \in DOMAIN chunks : chunks[k][1] < chunks[k][2]
        /\ chunks # <<>> => chunks[1][1] = 0
        /\ \A k \in DOMAIN chunks :
             k < Len(chunks) =>
                /\ chunks[k][2] = chunks[k + 1][1]
                /\ WindowMs(k) = FullWindowMs
        /\ chunks # <<>> => WindowMs(Len(chunks)) <= FullWindowMs
        /\ start = (IF chunks = <<>> THEN 0 ELSE chunks[Len(chunks)][2])
        /\ start <= total_duration_ms
        /\ (Len(chunks) - 1) * FullWindowMs < total_duration_ms
        /\ cpc \in {"chunks", "done"} =>
             chunks # <<>> /\ chunks[Len(chunks)][2] = total_duration_ms

\* The loop has ended with three windows or more, the last one shorter.
C25_Witness ==
    /\ Chunking
    /\ cpc = "chunks"
    /\ Len(chunks) >= 3
    /\ WindowMs(Len(chunks)) < FullWindowMs

\* The segments of the merged list that came from window w, as the engine
\* returned them.
FromWindow(w) ==
    LET OfWindow(seg) == seg.window = w
        kept == SelectSeq(all_segments, OfWindow)
    IN [k \in DOMAIN kept |-> kept[k].raw]

\* The merged result but for the end of its last segment: the segments are
\* sorted by start time and in window order, every segment is shifted by
\* the start of its window, every window's segments are all there, and the
\* text is the windows' texts in order with single spaces between them.
MergedInOrder ==
    /\ \A k \in DOMAIN all_segments :
         k < Len(all_segments) =>
            /\ all_segments[k].start <= all_segments[k + 1].start
            /\ all_segments[k].window <= all_segments[k + 1].window
    /\ \A k \in DOMAIN all_segments :
         /\ all_segments[k].window \in DOMAIN chunks
         /\ all_segments[k].start
                = all_segments[k].raw.start + chunks[all_segments[k].window][1]
         /\ all_segments[k].end
                = all_segments[k].raw.end + chunks[all_segments[k].window][1]
    /\ Len(engine_calls) = Len(chunks)
    /\ \A w \in DOMAIN chunks :
         /\ engine_calls[w].from = chunks[w][1]
         /\ engine_calls[w].to = chunks[w][2]
         /\ FromWindow(w) = engine_calls[w].result.segments
    /\ Len(full_text) = 2 * Len(chunks) - 1
    /\ \A k \in DOMAIN full_text :
         full_text[k] = IF k % 2 = 1
                        THEN engine_calls[(k + 1) \div 2].result.text
                        ELSE " "

\* C26 as stated: the merged result is in order and complete, and the end of
\* its last segment is within one window length of the total duration.
C26_MergedEndsNearTotal ==
    (Chunking /\ cpc = "done") =>
        /\ MergedInOrder
        /\ all_segments # <<>> =>
             total_duration_ms - all_segments[Len(all_segments)].end
                 <= FullWindowMs

\* C26 amended: the merged result is in order and complete; the end of its
\* last segment lies in the window that segment came from, which is within
\* one window length of the total duration when the last window returned a
\* segment.
C26_MergedComplete ==
    (Chunking /\ cpc = "done") =>
        /\ MergedInOrder
        /\ all_segments # <<>> =>
             LET last == all_segments[Len(all_segments)]
             IN /\ chunks[last.window][1] <= last.end
                /\ last.end <= chunks[last.window][2]
                /\ engine_calls[Len(chunks)].result.segments # <<>> =>
                     /\ last.window = Len(chunks)
                     /\ total_duration_ms - last.end <= FullWindowMs
                     /\ last.end <= total_duration_ms

\* Three windows or more were merged, the last one with a segment that
\* ends before the audio does, and an earlier one with two segments.
C26_Witness ==
    /\ Chunking
    /\ cpc = "done"
    /\ Len(chunks) >= 3
    /\ engine_calls[Len(chunks)].result.segments # <<>>
    /\ all_segments[Len(all_segments)].end < total_duration_ms
    /\ \E w \in 2..(Len(chunks) - 1) : Len(FromWindow(w)) = 2

\* The 70-minute file of 30 MB.
SeventyMinutes == total_duration_ms = 70 * 60000 /\ file_size_mb = 30

\* Both windows of a file of two were transcribed and every segment of the
\* second is shifted by the length of the first.
BothTranscribed ==
    /\ Len(engine_calls) = 2
    /\ \A k \in DOMAIN engine_calls : engine_calls[k].sent = "chunk"
    /\ \A k \in DOMAIN all_segments :
         all_segments[k].window = 2 =>
            /\ all_segments[k].start = all_segments[k].raw.start + WindowMs(1)
            /\ all_segments[k].end = all_segments[k].raw.end + WindowMs(1)

\* C27 as stated: the 70-minute, 30 MB file gives exactly 2 windows of about
\* 35 minutes each (here: within 5 minutes of 35), both are transcribed and
\* the segments of the second are shifted by the length of the first.
C27_TwoWindowsOf35 ==
    (SeventyMinutes /\ cpc \in {"chunks", "done"}) =>
        /\ Len(chunks) = 2
        /\ \A k \in DOMAIN chunks :
             /\ WindowMs(k) >= 30 * 60000
             /\ WindowMs(k) <= 40 * 60000
        /\ cpc = "done" => BothTranscribed

\* C27 amended: the 70-minute, 30 MB file gives exactly 2 windows, of
\* 2 800 000 ms (46 2/3 minutes) and 1 400 000 ms (23 1/3 minutes), both
\* are transcribed and the segments of the second are shifted by the length
\* of the first.
C27_TwoWindows ==
    (SeventyMinutes /\ cpc \in {"chunks", "done"}) =>
        /\ Len(chunks) = 2
        /\ WindowMs(1) = 2800000
        /\ WindowMs(2) = 1400000
        /\ cpc = "done" => BothTranscribed

\* The 70-minute file was transcribed and its second window gave segments.
C27_Witness ==
    /\ SeventyMinutes
    /\ cpc = "done"
    /\ \E k \in DOMAIN all_segments : all_segments[k].window = 2

\* C28: a file of at most 25 MB is sent in exactly one call, a larger one
\* only as windows, and the estimated size of every window sent (its
\* length times bytes_per_ms) is at most 25 MB.
C28_CeilingEnforced ==
    /\ (cpc = "done" /\ file_size_mb > 0 /\ file_size_mb <= MAX_FILE_SIZE_MB) =>
         Len(engine_calls) = 1 /\ engine_calls[1].sent = "file"
    /\ file_size_mb > MAX_FILE_SIZE_MB =>
         \A k \in DOMAIN engine_calls :
            /\ engine_calls[k].sent = "chunk"
            /\ (engine_calls[k].to - engine_calls[k].from) * file_size_mb
                   <= MAX_FILE_SIZE_MB * total_duration_ms

(***************************************************************************)
(* Claims about process_segments                                           *)
(***************************************************************************)

\* C29: the segment_index values of the rows process_segments returns are
\* 0..n-1 in list order, whichever segments the filters removed; the rows
\* are the segments that were not removed (all of them for the API's
\* function, which has no filter), in the order of the input.
C29_DenseIndices ==
    processed_by # "none" =>
        /\ \A k \in DOMAIN db_segments : db_segments[k].segment_index = k - 1
        /\ \A k \in DOMAIN db_segments :
             k < Len(db_segments) =>
                db_segments[k].start_time_ms < db_segments[k + 1].start_time_ms
        /\ {db_segments[k].start_time_ms : k \in DOMAIN db_segments}
             = {result_segments[i].start :
                  i \in {j \in DOMAIN result_segments :
                           processed_by = "api" \/ ~Skipped(result_segments[j])}}

\* The worker processed three segments, the second of which was removed.
C29_Witness ==
    /\ processed_by = "worker"
    /\ Len(result_segments) = 3
    /\ Skipped(result_segments[2])
    /\ Len(db_segments) = 2

(***************************************************************************)
(* Claims about the caption log of the worker                              *)
(***************************************************************************)

\* C30: while a transcription job of the worker's recording waits in the
\* queue and the scraper captured at least one segment, the caption log is
\* among the uploaded files.
C30_CaptionLogUploaded ==
    (tq > 0 /\ scraped /\ is_uploaded) => "captions" \in uploaded

(***************************************************************************)
(* Claims about the texts, the end times and the order of caption segments *)
(***************************************************************************)

\* The step is a caption event of a speaker who has an open segment and
\* whose name is not filtered.
CaptionOfOpenSpeaker ==
    /\ Len(events') = Len(events) + 1
    /\ events'[Len(events')].kind \in {"extended", "replaced"}

\* C33: a caption event of a speaker with an open segment whose text does
\* not start with the text of the open segment closes that segment as it is
\* (it becomes the last element of the closed list) and opens a segment
\* with the new text at the time of the event.
C33_NonExtendingTextCloses ==
    [][CaptionOfOpenSpeaker =>
        LET e == events'[Len(events')]
            i == ActiveIndex(active_segments, e.speaker)
        IN
        ~StartsWith(e.text, active_segments[i].text) =>
            /\ segments' = Append(segments, active_segments[i])
            /\ active_segments'[i] = CaptionSegment(e.speaker, e.text, e.t)]_vars

\* C34: a caption event that updates an open segment leaves its end_ms at
\* least what it was.
C34_EndNeverDecreases ==
    [][(CaptionOfOpenSpeaker /\ events'[Len(events')].kind = "extended") =>
        LET i == ActiveIndex(active_segments, events'[Len(events')].speaker)
        IN  active_segments'[i].end_ms >= active_segments[i].end_ms]_vars

\* C40: the list get_segments returns (and so the list stop_scraping
\* returns) is in non-decreasing order of start_ms.
C40_SegmentsInStartOrder ==
    \A i, j \in DOMAIN GetSegments :
        i < j => GetSegments[i].start_ms <= GetSegments[j].start_ms

(***************************************************************************)
(* The two attribution functions against each other (SpecAttribution)      *)
(***************************************************************************)

\* C37: for the same timestamp and the same caption list the lookup of the
\* Transcriber and the lookup of the SpeakerAttributor return the same
\* speaker, or both none.
C37_SameAttribution ==
    \A i, j \in DOMAIN lookups :
        (/\ lookups[i].by = "transcriber"
         /\ lookups[j].by = "attributor"
         /\ lookups[i].t = lookups[j].t
         /\ lookups[i].caps = lookups[j].caps)
            => lookups[i].speaker = lookups[j].speaker

(***************************************************************************)
(* Claims about the admission poll (SpecJoin)                              *)
(***************************************************************************)

\* The step is one tick of _wait_for_meeting_join.
IsPollTick ==
    /\ jpc = "poll"
    /\ poll_i < MaxJoinTicks
    /\ <<jpc, poll_i, outcomes>>' # <<jpc, poll_i, outcomes>>

\* The step ends the attempt with the outcome `how`.
EndsAttemptWith(how) ==
    /\ Len(outcomes') = Len(outcomes) + 1
    /\ outcomes'[Len(outcomes')] = how

C38_JoinNeverRaises == jpc # "raised"

(***************************************************************************)
(* Claims about the file Recorder.stop returns (SpecRecorder)              *)
(***************************************************************************)

\* C35: a stop() call of a recording in progress returns None only when the
\* file at the expected path is missing or empty and the newest other file
\* of the directory is not a recording of this meeting that is not empty.
C35_NullOnlyWithoutAnyFile ==
    \A i \in DOMAIN stop_calls :
        (/\ stop_calls[i].rec
         /\ stop_calls[i].proc # "none"
         /\ stop_results[i] = "null") =>
            /\ stop_calls[i].file # "nonempty"
            /\ ~(stop_calls[i].other = "nonempty"
                 /\ stop_calls[i].owner = "self")

\* C36: a file stop() returns from the scan of the recording directory is a
\* recording of this recorder's own meeting.
C36_OwnRecordingReturned ==
    \A i \in DOMAIN stop_calls :
        stop_results[i] = "other" => stop_calls[i].owner = "self"

(***************************************************************************)
(* Claims about the two transcription routes of the worker (SpecWorker)    *)
(***************************************************************************)

\* C39: when main() goes on to mark the meeting completed, exactly one of
\* the two has happened: the worker's own transcript was uploaded, or a
\* transcription job was enqueued.
C39_ExactlyOneRoute ==
    [][(wpc = "record" /\ wpc' = "status_completed") =>
          (("transcription" \in uploaded') # (tq' = tq + 1))]_vars

\* A transcript uploaded and a job enqueued never go together (this half of
\* the statement holds).
NeverBothRoutes ==
    [][(wpc = "record" /\ wpc' = "status_completed") =>
          ~("transcription" \in uploaded' /\ tq' = tq + 1)]_vars

(***************************************************************************)
(* Claims about the scheduler (SpecScheduler)                              *)
(***************************************************************************)

\* The meetings of an event that have not ended.
LiveMeetings(event_id) == ExistingNotEnded(meetings_table, event_id)

====
